---- MODULE Spec2Model ----
(***************************************************************************)
(* BSI emulator of the PSA comfort CAN remote (headless ESP32 sketch,      *)
(* src/esp32-headless-can-remote.ino): settings frame 0x260, date/time     *)
(* frame 0x276, the decoders of 0x15B and 0x39B, the persisted clock and   *)
(* the TWAI start/reconfigure sequencing, as one state machine.            *)
(*                                                                         *)
(* Conventions.                                                            *)
(*  - A byte is a number 0..255; a frame buffer is a function 0..7 -> byte *)
(*    (the source's indices).                                              *)
(*  - A time_t is a record [d |-> days since 1970-01-01, s |-> 0..86399]:  *)
(*    the seconds count d*86400+s does not fit TLC's 32-bit integers for  *)
(*    years after 2037, the pair does.  time_t is 64 bits wide (no wrap);  *)
(*    the 32-bit long of Preferences::putLong is modelled by ToLong.       *)
(*  - millis() is the variable millis; it advances only in Advance.        *)
(*  - Every action is one handler of loop() (or setup()), start to return. *)
(***************************************************************************)
EXTENDS Integers, Sequences, FiniteSets, TLC

VARIABLES
  phase,                   \* "reset": before setup(); "loop": inside loop()
  loopPc,                  \* position in loop(): "client", "rx", "tick"
  millis,                  \* millis()
  clkEpoch, clkMs,         \* system clock: value given to settimeofday, and millis() then
  prefs,                   \* the NVS namespace "psacan"
  bsiState260, bsiHave260, bsiLang5, bsiIs24h, bsiIsCelsius,
  bsiPersistedEpoch, bsiPersistedEpochMillis,
  canStarted, currentBitrate,
  drv,                     \* TWAI driver: "uninstalled", "stopped", "running"
  lastCanRx, engineTemp, intakeAirTemp, batteryVolt,
  lastBsi260, lastBsi276,
  rxq,                     \* frames in the TWAI driver's receive queue, oldest first
  lastOp,                  \* history: the handler that ran last, with its input
  tx,                      \* history: frames handed to twai_transmit by that handler
  nvsW,                    \* history: NVS keys written by that handler
  drvOps,                  \* history: TWAI driver calls made by that handler
  emu,                     \* the globals of smeg_time_language_emulator.ino, as a record
  sched32,                 \* the scheduler's counter and timestamps as unsigned 32-bit values
  panel                    \* the globals of the button-panel sketch of fmux-emu.ino

bsiVars  == <<bsiState260, bsiHave260, bsiLang5, bsiIs24h, bsiIsCelsius>>
timeVars == <<clkEpoch, clkMs, bsiPersistedEpoch, bsiPersistedEpochMillis>>
canVars  == <<canStarted, currentBitrate, drv>>
sensVars == <<lastCanRx, engineTemp, intakeAirTemp, batteryVolt>>
schedVars == <<lastBsi260, lastBsi276>>
histVars == <<lastOp, tx, nvsW, drvOps>>
remoteVars == <<phase, loopPc, millis, prefs, bsiVars, timeVars, canVars, sensVars,
                schedVars, histVars, rxq>>
otherVars == <<sched32, panel>>
vars == <<remoteVars, emu, otherVars>>

----------------------------------------------------------------------------
(* Bounds of the model *)

\* the tick count of the standalone emulator is capped at EmuMaxSteps
\* advances of 100 ms after setup (of 1000 ms while setup hangs)
EmuMaxSteps == 6

\* frames the model lets wait in the receive queue (rx_queue_len is 16)
MaxQueue == 2
PanelMaxScans == 13

\* millis() is capped at MaxTicks advances of 500 ms after the earliest boot.
MaxTicks == 1

----------------------------------------------------------------------------
(* Program constants *)

CAN_ID_260 == 608                \* 0x260
CAN_ID_15B == 347                \* 0x15B
CAN_ID_39B == 923                \* 0x39B
CAN_ID_276 == 630                \* 0x276
BSI_PERIOD_260_MS == 500
BSI_PERIOD_276_MS == 1000
SetupDelayMs == 200              \* delay(200) at the head of setup()
CAN_ID_122 == 290                \* 0x122, the button frames
BTN_SETTINGS == 17
BTN_MAPS == 18
BTN_RADIO == 19
BTN_PHONE == 20
BTN_APPS == 29
BTN_TRIP == 30
BTN_AC == 32
PressDelayMs == 75               \* delay(press_ms) of pressIndex
IdleDelayMs == 120               \* delay(120) of pressIndex

\* smeg_time_language_emulator.ino
PERIOD_260_MS == 100
PERIOD_276_MS == 500
ID_260 == 608
ID_15B == 347
ID_39B == 923
ID_276 == 630
EmuSetupDelayMs == 200           \* delay(200) at the head of setup()
EmuHangDelayMs == 1000           \* delay(1000) in the loop setup() ends in

Frame8(t) == [i \in 0..7 |-> t[i + 1]]

kBsi260DefaultPeugeot307 == Frame8(<<184, 68, 34, 144, 33, 8, 0, 0>>)
ZeroFrame == [i \in 0..7 |-> 0]


----------------------------------------------------------------------------
(* uint8_t arithmetic.  The masks of the source are single bits or runs of *)
(* low bits, so & and | are written with \div and %.                      *)

U8(x) == x % 256

\* (x & (1 << k)) != 0
TestBit(x, k) == (x \div (2 ^ k)) % 2 = 1

\* x & ((1 << n) - 1)
LowBits(x, n) == x % (2 ^ n)

\* bsiSetBit with mask = 1 << k
\* faulty variant of bsiSetBit: the bit is set but never cleared
bsiSetBitNeverClears(byte, k, value) ==
  IF value /\ ~TestBit(byte, k) THEN byte + 2 ^ k ELSE byte

bsiSetBit(byte, k, value) ==
  (byte - (IF TestBit(byte, k) THEN 2 ^ k ELSE 0)) + (IF value THEN 2 ^ k ELSE 0)

----------------------------------------------------------------------------
(* time_t and the C library's calendar (mktime, localtime; TZ unset = UTC) *)

TimeT(days, secs) == [d |-> days, s |-> secs]
TimeZero == TimeT(0, 0)
TimeMinusOne == TimeT(-1, 86399)             \* (time_t)-1

TimePositive(t) == t.d > 0 \/ (t.d = 0 /\ t.s > 0)

TimeAddSeconds(t, n) ==
  TimeT(t.d + ((t.s + n) \div 86400), (t.s + n) % 86400)

TimeLess(a, b) == a.d < b.d \/ (a.d = b.d /\ a.s < b.s)

\* static_cast<long>(epoch) with a 32-bit long: reduce modulo 2^32 into
\* [-2^31, 2^31).  2^31 s = 24855 d + 11648 s; 2^32 s = 49710 d + 23296 s.
RECURSIVE ToLong(_)
ToLong(t) ==
  IF ~TimeLess(t, TimeT(24855, 11648))
    THEN ToLong(TimeT(t.d - 49711 + ((t.s + 86400 - 23296) \div 86400),
                      (t.s + 86400 - 23296) % 86400))
  ELSE IF TimeLess(t, TimeT(-24856, 86400 - 11648))
    THEN ToLong(TimeT(t.d + 49710 + ((t.s + 23296) \div 86400), (t.s + 23296) % 86400))
  ELSE t

IsLeap(y) == (y % 4 = 0 /\ y % 100 # 0) \/ y % 400 = 0

\* mon is 0-based, as tm_mon
DaysInMonth(y, mon) ==
  IF mon = 1 THEN (IF IsLeap(y) THEN 29 ELSE 28)
  ELSE IF mon \in {3, 5, 8, 10} THEN 30 ELSE 31

LeapsBefore(y) == ((y - 1) \div 4) - ((y - 1) \div 100) + ((y - 1) \div 400)

\* days from 1970-01-01 to y-01-01
DaysBeforeYear(y) == 365 * (y - 1970) + LeapsBefore(y) - LeapsBefore(1970)

RECURSIVE DaysBeforeMonth(_, _)
DaysBeforeMonth(y, mon) ==
  IF mon = 0 THEN 0 ELSE DaysBeforeMonth(y, mon - 1) + DaysInMonth(y, mon - 1)

\* mktime of a struct tm [year (full), mon (0-based), mday, hour, min, sec]:
\* out-of-range fields are normalised (month 12 is January of the next
\* year, February 30 is March 1 or 2, hour 24 is the next day), never
\* rejected; the result is (time_t)-1 only when it is that second.
MkTime(tm) ==
  LET y    == tm.year + (tm.mon \div 12)
      mon  == tm.mon % 12
      days == DaysBeforeYear(y) + DaysBeforeMonth(y, mon) + (tm.mday - 1)
      secs == tm.hour * 3600 + tm.min * 60 + tm.sec
  IN  TimeT(days + (secs \div 86400), secs % 86400)

RECURSIVE YearOfDays(_, _)
YearOfDays(days, y) ==
  IF days >= DaysBeforeYear(y + 1) THEN YearOfDays(days, y + 1)
  ELSE IF days < DaysBeforeYear(y) THEN YearOfDays(days, y - 1)
  ELSE y

RECURSIVE MonthOfYday(_, _, _)
MonthOfYday(y, yday, mon) ==
  IF yday >= DaysBeforeMonth(y, mon + 1) THEN MonthOfYday(y, yday, mon + 1) ELSE mon

\* localtime of a time_t
LocalTime(t) ==
  LET y    == YearOfDays(t.d, 1970 + (t.d \div 366))
      yday == t.d - DaysBeforeYear(y)
      mon  == MonthOfYday(y, yday, 0)
  IN  [year |-> y, mon |-> mon, mday |-> yday - DaysBeforeMonth(y, mon) + 1,
       hour |-> t.s \div 3600, min |-> (t.s % 3600) \div 60, sec |-> t.s % 60]

\* time(nullptr): the value set by settimeofday plus the seconds since
Now(epoch, setMs, nowMs) == TimeAddSeconds(epoch, (nowMs - setMs) \div 1000)

----------------------------------------------------------------------------
(* Settings state: pure parts of the bsi* functions.  S is the record     *)
(* [state260, have260, lang5, is24h, isCelsius] of the bsi* globals.      *)

BsiRec == [state260 |-> bsiState260, have260 |-> bsiHave260, lang5 |-> bsiLang5,
           is24h |-> bsiIs24h, isCelsius |-> bsiIsCelsius]

bsiEnsureBaseline(S) ==
  IF S.have260 THEN S
  ELSE [S EXCEPT !.state260 = kBsi260DefaultPeugeot307, !.have260 = TRUE]

\* the two assignments to bsiState260[0]
\* faulty variant of LangByte0: the menu bit is left as it was
LangByte0KeepsBit7(old0, lang5) ==
  U8(LowBits(lang5, 5) * 4 + LowBits(old0, 2) + (IF TestBit(old0, 7) THEN 128 ELSE 0))

LangByte0(old0, lang5) == bsiSetBit(U8(LowBits(lang5, 5) * 4 + LowBits(old0, 2)), 7, TRUE)

\* faulty variant of bsiApplyLangUnits: the unit bit of byte 1 is left alone
bsiApplyLangOnly(S) ==
  LET B == bsiEnsureBaseline(S)
  IN  [B EXCEPT !.state260 =
         [B.state260 EXCEPT ![0] = LangByte0(B.state260[0], B.lang5)]]

bsiApplyLangUnits(S) ==
  LET B == bsiEnsureBaseline(S)
  IN  [B EXCEPT !.state260 =
         [B.state260 EXCEPT ![0] = LangByte0(B.state260[0], B.lang5),
                            ![1] = bsiSetBit(B.state260[1], 6, B.isCelsius)]]

\* the keys bsiSaveState and bsiPersistTime write
SaveKeys == {"lang5", "is24h", "isc", "raw260"}
TimeKeys == {"epoch", "epoch_ts"}

\* faulty variant of SavedPrefs: the frame is not written
SavedPrefsWithoutFrame(P, S) ==
  [P EXCEPT !.has = @ \cup SaveKeys, !.lang5 = S.lang5, !.is24h = S.is24h,
            !.isc = S.isCelsius]

\* the puts of bsiSaveState, in the NVS record
SavedPrefs(P, S) ==
  [P EXCEPT !.has = @ \cup SaveKeys, !.lang5 = S.lang5, !.is24h = S.is24h,
            !.isc = S.isCelsius, !.raw260 = S.state260]

\* bsiHandle15B up to and including bsiApplyLangUnits (before save and send);
\* buf is the zero-padded copy, len is 1..8
\* faulty variant of UseTail: the tail flag is not looked at
UseTailAnyLength(buf, len) == len > 1

\* faulty variant of UseLangUnits: bit 6 of byte 0 is taken as the flag
UseLangUnitsBit6(buf) == TestBit(buf[0], 6)

UseLangUnits(buf) == TestBit(buf[0], 7)
UseTail(buf, len) == len > 1 /\ TestBit(buf[1], 2)

\* faulty variant of TailCopy: the whole zero-padded buffer is copied
TailCopyPadded(state260, buf, len) ==
  [i \in 0..7 |-> IF i >= 1 THEN buf[i] ELSE state260[i]]

\* faulty variant of TailCopy: the copy starts at index 0
TailCopyFromZero(state260, buf, len) ==
  [i \in 0..7 |-> IF i < len THEN buf[i] ELSE state260[i]]

\* the for loop of bsiHandle15B
TailCopy(state260, buf, len) ==
  [i \in 0..7 |-> IF i >= 1 /\ i < len THEN buf[i] ELSE state260[i]]

\* faulty variant of Lang5Of: the shift is one bit too long
Lang5OfShift3(b0) == LowBits(b0 \div 8, 5)

\* faulty variant of Lang5Of: the code is not masked to 5 bits
Lang5OfUnmasked(b0) == b0 \div 4

\* (buf[0] >> 2) & 0x1F
Lang5Of(b0) == LowBits(b0 \div 4, 5)

Apply15B(S, buf, len) ==
  LET B == bsiEnsureBaseline(S)
      T == IF UseTail(buf, len)
             THEN [B EXCEPT !.state260 = TailCopy(B.state260, buf, len)]
             ELSE B
      L == IF UseLangUnits(buf)
             THEN [T EXCEPT !.lang5 = Lang5Of(buf[0]),
                            !.isCelsius = TestBit(buf[1], 6)]
             ELSE T
  IN  bsiApplyLangUnits(L)

\* the copy into buf[8] = {0}: bytes at and after len read as zero
\* faulty variant of PadFrame: the bytes beyond the length are not zeroed
PadFrameKeepsAll(data, len) == data

PadFrame(data, len) == [i \in 0..7 |-> IF i < len THEN data[i] ELSE 0]

\* the fields bsiHandle39B decodes
Decode39B(data) ==
  [is24 |-> TestBit(data[0], 7),
   year |-> 2000 + LowBits(data[0], 7),
   month |-> LowBits(data[1], 4),
   day |-> LowBits(data[2], 5),
   hour |-> LowBits(data[3], 5),
   minute |-> LowBits(data[4], 6)]

\* faulty variant of Tm39B: the month is not shifted to tm_mon's 0..11
Tm39BMonthNotShifted(ct) ==
  [year |-> ct.year, mon |-> ct.month,
   mday |-> IF ct.day > 0 THEN ct.day ELSE 1,
   hour |-> ct.hour, min |-> ct.minute, sec |-> 0]

\* faulty variant of Tm39B: month 0 and day 0 are handed to mktime as they are
Tm39BNoClamp(ct) ==
  [year |-> ct.year, mon |-> ct.month - 1, mday |-> ct.day,
   hour |-> ct.hour, min |-> ct.minute, sec |-> 0]

\* the struct tm bsiHandle39B hands to mktime (year kept in full)
Tm39B(ct) ==
  [year |-> ct.year,
   mon |-> IF ct.month > 0 THEN ct.month - 1 ELSE 0,
   mday |-> IF ct.day > 0 THEN ct.day ELSE 1,
   hour |-> ct.hour, min |-> ct.minute, sec |-> 0]

\* bsiBuild276: the 7 payload bytes from the stored 24h flag and time(nullptr)
\* faulty variant of bsiBuild276: the month is sent as tm_mon, from 0
bsiBuild276MonthFromZero(is24h, nowEpoch) ==
  LET t    == LocalTime(nowEpoch)
      year == t.year
      y7   == IF year >= 2000 THEN U8(year - 2000) ELSE 0
  IN  [i \in 0..6 |->
        CASE i = 0 -> IF is24h THEN bsiSetBit(y7, 7, TRUE) ELSE y7
          [] i = 1 -> LowBits(t.mon, 4)
          [] i = 2 -> LowBits(t.mday, 5)
          [] i = 3 -> LowBits(t.hour, 5)
          [] i = 4 -> LowBits(t.min, 6)
          [] i = 5 -> 63
          [] OTHER -> 254]

bsiBuild276(is24h, nowEpoch) ==
  LET t    == LocalTime(nowEpoch)
      year == t.year
      y7   == IF year >= 2000 THEN U8(year - 2000) ELSE 0
  IN  [i \in 0..6 |->
        CASE i = 0 -> IF is24h THEN bsiSetBit(y7, 7, TRUE) ELSE y7
          [] i = 1 -> LowBits(t.mon + 1, 4)
          [] i = 2 -> LowBits(t.mday, 5)
          [] i = 3 -> LowBits(t.hour, 5)
          [] i = 4 -> LowBits(t.min, 6)
          [] i = 5 -> 63
          [] OTHER -> 254]

\* a frame handed to twai_transmit, with the call's outcome
TxFrame(id, data, dlc, ok) == [id |-> id, data |-> data, dlc |-> dlc, ok |-> ok]

----------------------------------------------------------------------------
(* Persistence: the NVS record.  has is the set of keys present; a key    *)
(* that is not present reads as the default the caller passes.            *)

EmptyPrefs ==
  [has |-> {}, lang5 |-> 0, is24h |-> FALSE, isc |-> FALSE, raw260 |-> ZeroFrame,
   epoch |-> TimeZero, epoch_ts |-> 0]

\* faulty variant of AllZero: one zero byte is enough
AnyZero(frame) == \E i \in 0..7 : frame[i] = 0

\* the allZero loop of bsiLoadState
AllZero(frame) == \A i \in 0..7 : frame[i] = 0

\* faulty variant of LoadSettings: a stored frame is never loaded
LoadSettingsBaselineOnly(P, S) ==
  LET S2 == [S EXCEPT !.have260 = FALSE,
                      !.lang5 = IF "lang5" \in P.has THEN P.lang5 ELSE S.lang5,
                      !.is24h = IF "is24h" \in P.has THEN P.is24h ELSE S.is24h,
                      !.isCelsius = IF "isc" \in P.has THEN P.isc ELSE S.isCelsius]
  IN  bsiApplyLangUnits(bsiEnsureBaseline(S2))

\* bsiLoadState, settings half: S holds the globals' values before the load
LoadSettings(P, S) ==
  LET S1 == IF "raw260" \in P.has
              THEN [S EXCEPT !.state260 = IF AllZero(P.raw260)
                                            THEN kBsi260DefaultPeugeot307
                                            ELSE P.raw260,
                             !.have260 = TRUE]
              ELSE [S EXCEPT !.have260 = FALSE]
      S2 == [S1 EXCEPT !.lang5 = IF "lang5" \in P.has THEN P.lang5 ELSE S.lang5,
                       !.is24h = IF "is24h" \in P.has THEN P.is24h ELSE S.is24h,
                       !.isCelsius = IF "isc" \in P.has THEN P.isc ELSE S.isCelsius]
  IN  bsiApplyLangUnits(bsiEnsureBaseline(S2))

\* faulty variant of BootDelta: a reference of 0 counts as a reference
BootDeltaFromZero(baseMs, nowMs) == IF nowMs >= baseMs THEN nowMs - baseMs ELSE 0

\* the delta of bsiLoadState: milliseconds credited since the reference
BootDelta(baseMs, nowMs) == IF baseMs > 0 /\ nowMs >= baseMs THEN nowMs - baseMs ELSE 0

\* whether bsiLoadState sets the clock at all
BootSetsClock(persistedEpoch) == TimePositive(persistedEpoch)

\* bsiLoadState, clock half
LoadClock(P, nowMs) ==
  LET pe  == IF "epoch" \in P.has THEN P.epoch ELSE TimeZero
      pms == IF "epoch_ts" \in P.has THEN P.epoch_ts ELSE 0
  IN  [persistedEpoch |-> pe, persistedMs |-> pms, sets |-> BootSetsClock(pe),
       epoch |-> TimeAddSeconds(pe, BootDelta(pms, nowMs) \div 1000)]

\* the keys bsiPersistTime writes
PersistedTime(P, epoch, nowMs) ==
  [P EXCEPT !.has = @ \cup TimeKeys, !.epoch = ToLong(epoch), !.epoch_ts = nowMs]

----------------------------------------------------------------------------
(* Transport *)

\* canSend's guard and bsiSend260: S after the call, the frames handed to
\* twai_transmit, and lastBsi260 after the call
\* faulty variant of bsiSend260: the timestamp is taken whatever canSend
\* returns
bsiSend260AlwaysStamps(S, started, ok, last, now) ==
  IF ~started THEN [S |-> S, tx |-> <<>>, last |-> last]
  ELSE [S |-> bsiApplyLangUnits(S),
        tx |-> <<TxFrame(CAN_ID_260, bsiApplyLangUnits(S).state260, 8, ok)>>,
        last |-> now]

\* faulty variant of bsiSend260: nothing is sent before the period is over
bsiSend260WhenDue(S, started, ok, last, now) ==
  IF ~started \/ now - last < BSI_PERIOD_260_MS THEN [S |-> S, tx |-> <<>>, last |-> last]
  ELSE LET A == bsiApplyLangUnits(S)
       IN  [S |-> A, tx |-> <<TxFrame(CAN_ID_260, A.state260, 8, ok)>>,
            last |-> IF ok THEN now ELSE last]

bsiSend260(S, started, ok, last, now) ==
  IF ~started THEN [S |-> S, tx |-> <<>>, last |-> last]
  ELSE LET A == bsiApplyLangUnits(S)
       IN  [S |-> A, tx |-> <<TxFrame(CAN_ID_260, A.state260, 8, ok)>>,
            last |-> IF ok THEN now ELSE last]

\* faulty variant of bsiSend276: a failed send clears the timestamp
bsiSend276ClearsOnFailure(is24h, nowEpoch, started, ok, last, now) ==
  IF ~started THEN [tx |-> <<>>, last |-> last]
  ELSE [tx |-> <<TxFrame(CAN_ID_276, bsiBuild276(is24h, nowEpoch), 7, ok)>>,
        last |-> IF ok THEN now ELSE 0]

bsiSend276(is24h, nowEpoch, started, ok, last, now) ==
  IF ~started THEN [tx |-> <<>>, last |-> last]
  ELSE [tx |-> <<TxFrame(CAN_ID_276, bsiBuild276(is24h, nowEpoch), 7, ok)>>,
        last |-> IF ok THEN now ELSE last]

\* faulty variant of twaiStart: the result of twai_start is not looked at
twaiStartIgnoresStart(started, d, hw) ==
  IF started THEN [ret |-> TRUE, drv |-> d, ops |-> <<>>]
  ELSE IF hw = "noInstall" \/ d # "uninstalled"
    THEN [ret |-> FALSE, drv |-> d, ops |-> <<"install">>]
  ELSE [ret |-> TRUE, drv |-> IF hw = "noStart" THEN "stopped" ELSE "running",
        ops |-> <<"install", "start">>]

\* faulty variant of twaiStart: the result of twai_driver_install is not
\* looked at
twaiStartIgnoresInstall(started, d, hw) ==
  IF started THEN [ret |-> TRUE, drv |-> d, ops |-> <<>>]
  ELSE IF hw = "noInstall" \/ d # "uninstalled"
    THEN [ret |-> TRUE, drv |-> d, ops |-> <<"install", "start">>]
  ELSE IF hw = "noStart"
    THEN [ret |-> FALSE, drv |-> "stopped", ops |-> <<"install", "start">>]
  ELSE [ret |-> TRUE, drv |-> "running", ops |-> <<"install", "start">>]

\* twaiStart up to the assignment of canStarted: the driver calls made and
\* the driver state they leave.  hw is what the hardware answers: "ok",
\* "noInstall" (twai_driver_install fails) or "noStart" (twai_start fails);
\* twai_driver_install fails on a driver that is already installed.
twaiStart(started, d, hw) ==
  IF started THEN [ret |-> TRUE, drv |-> d, ops |-> <<>>]
  ELSE IF hw = "noInstall" \/ d # "uninstalled"
    THEN [ret |-> FALSE, drv |-> d, ops |-> <<"install">>]
  ELSE IF hw = "noStart"
    THEN [ret |-> FALSE, drv |-> "stopped", ops |-> <<"install", "start">>]
  ELSE [ret |-> TRUE, drv |-> "running", ops |-> <<"install", "start">>]

\* the first line of twaiReconfigure
\* faulty variant of ReconfigureIsNoop: the early return is taken only
\* while the transport is stopped
ReconfigureIsNoopStopped(b, bitrate, started) == bitrate = b /\ ~started

ReconfigureIsNoop(b, bitrate, started) == bitrate = b /\ started

\* faulty variant of Due: both kinds are tested against the settings period
DueAtSettingsPeriod(now, last, period) == now - last >= BSI_PERIOD_260_MS

\* the due test of bsiTick (unsigned subtraction; millis() does not wrap
\* within the model's cap)
Due(now, last, period) == now - last >= period

----------------------------------------------------------------------------
(* History *)

Op(name, data, len) == [op |-> name, data |-> data, len |-> len, refused |-> FALSE]
NoData == <<>>

----------------------------------------------------------------------------
(* Initial state: power-on, before setup() *)

\* the standalone emulator just powered on: the initialisers of its
\* globals, the tick count and the system clock at 0, NVS holding P
EmuPowerOn(P) ==
  [pc |-> "reset", millis |-> 0, clkEpoch |-> TimeZero, clkMs |-> 0, nvs |-> P,
   state260 |-> ZeroFrame, have260Baseline |-> FALSE, lang5 |-> 14, is24h |-> TRUE,
   isCelsius |-> TRUE, persistedEpoch |-> TimeZero, persistedEpochMillis |-> 0,
   last260 |-> 0, last276 |-> 0,
   op |-> Op("power", NoData, 0), tx |-> <<>>]

\* the initialisers of the bsi* globals
StaticBsi ==
  [state260 |-> ZeroFrame, have260 |-> FALSE, lang5 |-> 14, is24h |-> TRUE,
   isCelsius |-> TRUE]

RemoteInit(P) ==
  /\ phase = "reset" /\ loopPc = "client" /\ millis = 0
  /\ clkEpoch = TimeZero /\ clkMs = 0
  /\ prefs \in P
  /\ bsiState260 = StaticBsi.state260 /\ bsiHave260 = StaticBsi.have260
  /\ bsiLang5 = StaticBsi.lang5 /\ bsiIs24h = StaticBsi.is24h
  /\ bsiIsCelsius = StaticBsi.isCelsius
  /\ bsiPersistedEpoch = TimeZero /\ bsiPersistedEpochMillis = 0
  /\ canStarted = FALSE /\ currentBitrate = "k125k"
  /\ lastCanRx = 0 /\ engineTemp = -99 /\ intakeAirTemp = -99 /\ batteryVolt = 0
  /\ lastBsi260 = 0 /\ lastBsi276 = 0
  /\ drv = "uninstalled"
  /\ lastOp = Op("power", NoData, 0) /\ tx = <<>> /\ nvsW = {} /\ drvOps = <<>>
  /\ rxq = <<>>

\* an unsigned 32-bit value as two 16-bit halves
Limb == 65536
U32(hi, lo) == [hi |-> hi, lo |-> lo]

\* the initialisers of lastBsi260 and lastBsi276, with millis() at 0; pc is
\* the position in loop(), bus tells whether twai_transmit may still fail,
\* wrote whether this iteration of loop() has handled a write
Sched32PowerOn ==
  [prog |-> "remote", now |-> U32(0, 0), last260 |-> U32(0, 0), last276 |-> U32(0, 0),
   el260 |-> 0, el276 |-> 0, run |-> 0, tx |-> <<>>,
   pc |-> "rx", bus |-> "flaky", wrote |-> FALSE,
   op |-> [op |-> "power", el260 |-> 0, el276 |-> 0]]

\* the initialisers of lastBtn, pressStart and longSent, with millis() at 0
\* can: canInit succeeded.  History: scans counts the iterations of loop();
\* seen is the press in progress (button, millis() at its first and latest
\* reading, commands handed over for it); ended is the press that the last
\* iteration saw end; tx is what the last iteration handed to twai_transmit
NoPress == [btn |-> -1, from |-> 0, to |-> 0, cmds |-> <<>>]
PanelPowerOn ==
  [pc |-> "reset", can |-> FALSE, millis |-> 0,
   lastBtn |-> -1, pressStart |-> 0, longSent |-> FALSE,
   scans |-> 0, seen |-> NoPress, ended |-> NoPress, tx |-> <<>>,
   op |-> [op |-> "power", adc |-> 0]]

OtherPowerOn == sched32 = Sched32PowerOn /\ panel = PanelPowerOn

InitWith(P) == RemoteInit(P) /\ emu = EmuPowerOn(EmptyPrefs) /\ OtherPowerOn

----------------------------------------------------------------------------
(* Actions *)

\* setup() on a device just powered: the globals hold their initialisers,
\* the system clock starts at 0, the TWAI driver is not installed, NVS holds
\* what it held.  bsiLoadState runs at millis() = bootMs, then twaiStart.
SetupBody(name, bootMs, hw, ok260, ok276) ==
  /\ LET S   == LoadSettings(prefs, StaticBsi)
         C   == LoadClock(prefs, bootMs)
         epo == IF C.sets THEN C.epoch ELSE TimeZero
         ems == IF C.sets THEN bootMs ELSE 0
         T   == twaiStart(FALSE, "uninstalled", hw)
         s60 == bsiSend260(S, T.ret, ok260, bootMs, bootMs)
         s76 == bsiSend276(S.is24h, Now(epo, ems, bootMs), T.ret, ok276, bootMs, bootMs)
     IN  /\ bsiState260' = s60.S.state260 /\ bsiHave260' = s60.S.have260
         /\ bsiLang5' = s60.S.lang5 /\ bsiIs24h' = s60.S.is24h
         /\ bsiIsCelsius' = s60.S.isCelsius
         /\ bsiPersistedEpoch' = C.persistedEpoch
         /\ bsiPersistedEpochMillis' = C.persistedMs
         /\ clkEpoch' = epo /\ clkMs' = ems
         /\ canStarted' = T.ret /\ drv' = T.drv /\ drvOps' = T.ops
         /\ lastBsi260' = IF T.ret THEN s60.last ELSE 0
         /\ lastBsi276' = IF T.ret THEN s76.last ELSE 0
         /\ tx' = s60.tx \o s76.tx
  /\ millis' = bootMs
  /\ phase' = "loop" /\ loopPc' = "client"
  /\ currentBitrate' = "k125k"
  /\ lastCanRx' = 0 /\ engineTemp' = -99 /\ intakeAirTemp' = -99 /\ batteryVolt' = 0
  /\ lastOp' = Op(name, NoData, 0) /\ nvsW' = {}
  /\ UNCHANGED prefs
  /\ rxq' = <<>>                  \* power-on: the driver's queue is empty
  /\ UNCHANGED <<emu, otherVars>>

\* the first setup() after power-on
Setup(bootMs, hw, ok260, ok276) ==
  /\ phase = "reset"
  /\ SetupBody("setup", bootMs, hw, ok260, ok276)

\* power loss at any point of loop(), then setup() again
Reboot(bootMs, hw, ok260, ok276) ==
  /\ phase = "loop"
  /\ SetupBody("reboot", bootMs, hw, ok260, ok276)

\* server.handleClient() with no request pending
HandleIdle ==
  /\ phase = "loop" /\ loopPc = "client"
  /\ loopPc' = "rx"
  /\ lastOp' = Op("idle", NoData, 0) /\ tx' = <<>> /\ nvsW' = {} /\ drvOps' = <<>>
  /\ UNCHANGED <<phase, millis, prefs, bsiVars, timeVars, canVars, sensVars, schedVars>>
  /\ UNCHANGED <<emu, rxq, otherVars>>

\* faulty variant of canSend: the frame is handed over whatever canStarted is
canSendAlways(started, id, data, dlc, ok) ==
  IF dlc > 8 THEN <<>> ELSE <<TxFrame(id, data, dlc, ok)>>

\* canSend: the frames handed to twai_transmit, none while the transport is
\* not started
canSend(started, id, data, dlc, ok) ==
  IF ~started \/ dlc > 8 THEN <<>> ELSE <<TxFrame(id, data, dlc, ok)>>

\* the button indices handleBtn accepts
Buttons == {BTN_SETTINGS, BTN_MAPS, BTN_RADIO, BTN_PHONE, BTN_APPS, BTN_TRIP, BTN_AC}

\* the frame of pressIndex: bit (idx - 1) % 8 of byte (idx - 1) \div 8
PressFrame(idx) ==
  [i \in 0..7 |-> IF i = (idx - 1) \div 8 THEN 2 ^ ((idx - 1) % 8) ELSE 0]

\* handleBtn with n given: pressIndex sends the press frame, waits 75 ms,
\* sends the idle frame and waits 120 ms; 400 for an index that is no button.
\* cap bounds millis()
HandleBtn(n, okPress, okIdle, cap) ==
  /\ phase = "loop" /\ loopPc = "client"
  /\ IF n \in Buttons
       THEN /\ millis + PressDelayMs + IdleDelayMs <= cap
            /\ tx' = canSend(canStarted, CAN_ID_122, PressFrame(n), 8, okPress)
                       \o canSend(canStarted, CAN_ID_122, ZeroFrame, 8, okIdle)
            /\ millis' = millis + PressDelayMs + IdleDelayMs
            /\ lastOp' = Op("btn", <<200>>, n)
       ELSE /\ tx' = <<>> /\ millis' = millis
            /\ lastOp' = Op("btn", <<400>>, n)
  /\ loopPc' = "rx"
  /\ nvsW' = {} /\ drvOps' = <<>>
  /\ UNCHANGED <<phase, prefs, bsiVars, timeVars, canVars, sensVars, schedVars>>
  /\ UNCHANGED <<emu, rxq, otherVars>>

\* handlePrefs: a24 and aC are the arguments is24 and isc: "none" (not
\* given), "0" or "1"
HandlePrefs(a24, aC, ok260, ok276) ==
  /\ phase = "loop" /\ loopPc = "client"
  /\ LET new24   == a24 # "0"
         newC    == aC # "0"
         need276 == a24 # "none" /\ new24 # bsiIs24h
         need260 == aC # "none" /\ newC # bsiIsCelsius
         changed == need276 \/ need260
         S1  == [BsiRec EXCEPT !.is24h = IF need276 THEN new24 ELSE @,
                               !.isCelsius = IF need260 THEN newC ELSE @]
         S2  == IF changed THEN bsiApplyLangUnits(S1) ELSE S1
         s60 == IF need260 THEN bsiSend260(S2, canStarted, ok260, lastBsi260, millis)
                ELSE [S |-> S2, tx |-> <<>>, last |-> lastBsi260]
         s76 == IF need276
                  THEN bsiSend276(S2.is24h, Now(clkEpoch, clkMs, millis), canStarted,
                                  ok276, lastBsi276, millis)
                ELSE [tx |-> <<>>, last |-> lastBsi276]
     IN  /\ bsiState260' = s60.S.state260 /\ bsiHave260' = s60.S.have260
         /\ bsiLang5' = s60.S.lang5 /\ bsiIs24h' = s60.S.is24h
         /\ bsiIsCelsius' = s60.S.isCelsius
         /\ prefs' = IF changed THEN SavedPrefs(prefs, S2) ELSE prefs
         /\ nvsW' = IF changed THEN SaveKeys ELSE {}
         /\ lastBsi260' = s60.last /\ lastBsi276' = s76.last
         /\ tx' = s60.tx \o s76.tx
  /\ loopPc' = "rx"
  /\ lastOp' = Op("prefs", <<a24, aC>>, 0) /\ drvOps' = <<>>
  /\ UNCHANGED <<phase, millis, timeVars, canVars, sensVars>>
  /\ UNCHANGED <<emu, rxq, otherVars>>

\* handleCfg with speed=125: twaiReconfigure(b), answered with status 200
\* when it returns true and 500 when it returns false
HandleCfg(b, hw, ok260, ok276) ==
  /\ phase = "loop" /\ loopPc = "client"
  /\ IF ReconfigureIsNoop(b, currentBitrate, canStarted)
       THEN /\ tx' = <<>> /\ drvOps' = <<>>
            /\ lastOp' = Op("cfg", <<200>>, 0)
            /\ UNCHANGED <<millis, bsiVars, canVars, sensVars, schedVars>>
       ELSE LET down == IF canStarted THEN <<"stop", "uninstall">> ELSE <<>>
                d0   == IF canStarted THEN "uninstalled" ELSE drv
                now  == IF canStarted THEN millis + 50 ELSE millis
                T    == twaiStart(FALSE, d0, hw)
                s60  == bsiSend260(BsiRec, T.ret, ok260, now, now)
                s76  == bsiSend276(bsiIs24h, Now(clkEpoch, clkMs, now), T.ret, ok276,
                                   now, now)
            IN  /\ millis' = now
                /\ currentBitrate' = b
                /\ lastCanRx' = 0 /\ engineTemp' = -99 /\ intakeAirTemp' = -99
                /\ batteryVolt' = 0
                /\ canStarted' = T.ret /\ drv' = T.drv /\ drvOps' = down \o T.ops
                /\ lastBsi260' = s60.last /\ lastBsi276' = s76.last
                /\ bsiState260' = s60.S.state260 /\ bsiHave260' = s60.S.have260
                /\ bsiLang5' = s60.S.lang5 /\ bsiIs24h' = s60.S.is24h
                /\ bsiIsCelsius' = s60.S.isCelsius
                /\ tx' = s60.tx \o s76.tx
                /\ lastOp' = Op("cfg", <<IF T.ret THEN 200 ELSE 500>>, 0)
  /\ loopPc' = "rx"
  /\ nvsW' = {}
  /\ UNCHANGED <<phase, prefs, timeVars>>
  /\ UNCHANGED <<emu, rxq, otherVars>>

\* the result of the mktime call of bsiHandle39B.  refuses: the library
\* reports (time_t)-1, which its contract allows when the time cannot be
\* represented; newlib's mktime normalises every field combination a frame
\* can carry and does not refuse any of them.
LibMkTime(tm, refuses) == IF refuses THEN TimeMinusOne ELSE MkTime(tm)

\* the range test of parseIso8601
IsoInRange(iso) ==
  /\ iso.year >= 1970 /\ iso.month >= 1 /\ iso.month <= 12 /\ iso.day >= 1 /\ iso.day <= 31
  /\ iso.hour >= 0 /\ iso.hour <= 23 /\ iso.minute >= 0 /\ iso.minute <= 59
  /\ iso.second >= 0 /\ iso.second <= 59

\* parseIso8601; iso holds the integers sscanf has read and their number,
\* matched (a field that was not read is 0)
parseIso8601(iso) ==
  IF iso.matched < 5 \/ ~IsoInRange(iso) THEN [ok |-> FALSE, epoch |-> TimeZero]
  ELSE LET epoch == LibMkTime([year |-> iso.year, mon |-> iso.month - 1, mday |-> iso.day,
                               hour |-> iso.hour, min |-> iso.minute, sec |-> iso.second],
                              FALSE)
       IN  [ok |-> epoch # TimeMinusOne, epoch |-> epoch]

\* the argument handling of handleTime.  arg is <<"none">>, <<"epoch", v>>
\* with v the value of toInt() as a time, or <<"iso", fields>>
TimeArg(arg) ==
  CASE arg[1] = "epoch" -> [ok |-> TimePositive(arg[2]), epoch |-> arg[2]]
    [] arg[1] = "iso"   -> parseIso8601(arg[2])
    [] OTHER            -> [ok |-> FALSE, epoch |-> TimeZero]

\* handleTime, answered with status 200, or 400 when the time is not valid
HandleTime(arg, ok276) ==
  /\ phase = "loop" /\ loopPc = "client"
  /\ LET R == TimeArg(arg)
     IN  IF R.ok
           THEN LET s76 == bsiSend276(bsiIs24h, R.epoch, canStarted, ok276, lastBsi276,
                                      millis)
                IN  /\ clkEpoch' = R.epoch /\ clkMs' = millis
                    /\ bsiPersistedEpoch' = R.epoch /\ bsiPersistedEpochMillis' = millis
                    /\ prefs' = PersistedTime(prefs, R.epoch, millis)
                    /\ nvsW' = TimeKeys
                    /\ lastBsi276' = s76.last /\ tx' = s76.tx
                    /\ lastOp' = Op("time", <<200>>, 0)
           ELSE /\ tx' = <<>> /\ nvsW' = {}
                /\ lastOp' = Op("time", <<400>>, 0)
                /\ UNCHANGED <<timeVars, prefs, lastBsi276>>
  /\ loopPc' = "rx"
  /\ drvOps' = <<>>
  /\ UNCHANGED <<phase, millis, bsiVars, canVars, sensVars, lastBsi260>>
  /\ UNCHANGED <<emu, rxq, otherVars>>

\* one pass of the while loop of readCanMessages on a 0x15B frame of
\* data_length_code len, and bsiHandle15B.  putOk: the puts of bsiSaveState
\* take effect (the code does not look at their results)
Rx15BBody(data, len, ok260, putOk) ==
  /\ phase = "loop" /\ loopPc = "rx" /\ drv = "running"
  /\ lastCanRx' = millis
  /\ IF len > 0
       THEN LET n   == IF len > 8 THEN 8 ELSE len
                buf == PadFrame(data, n)
                S1  == Apply15B(BsiRec, buf, n)
                S2  == bsiApplyLangUnits(S1)
                s60 == bsiSend260(S2, canStarted, ok260, lastBsi260, millis)
            IN  /\ bsiState260' = s60.S.state260 /\ bsiHave260' = s60.S.have260
                /\ bsiLang5' = s60.S.lang5 /\ bsiIs24h' = s60.S.is24h
                /\ bsiIsCelsius' = s60.S.isCelsius
                /\ prefs' = IF putOk THEN SavedPrefs(prefs, S2) ELSE prefs
                /\ nvsW' = IF putOk THEN SaveKeys ELSE {}
                /\ lastBsi260' = s60.last /\ tx' = s60.tx
       ELSE /\ tx' = <<>> /\ nvsW' = {}
            /\ UNCHANGED <<bsiVars, prefs, lastBsi260>>
  /\ lastOp' = Op("rx15B", data, len) /\ drvOps' = <<>>
  /\ UNCHANGED <<phase, loopPc, millis, timeVars, canVars, engineTemp, intakeAirTemp,
                 batteryVolt, lastBsi276>>

\* a 0x15B frame that arrives and is received at once
Rx15BPut(data, len, ok260, putOk) ==
  Rx15BBody(data, len, ok260, putOk) /\ UNCHANGED <<emu, rxq, otherVars>>

\* the same with the puts taking effect
Rx15B(data, len, ok260) == Rx15BPut(data, len, ok260, TRUE)

\* faulty variant of Accepts39B: a frame of 4 bytes is let through
Accepts39BFrom4(len) == len >= 4

\* the length condition under which readCanMessages hands a 0x39B frame to
\* bsiHandle39B, which repeats it
Accepts39B(len) == len >= 5

\* one pass of the while loop of readCanMessages on a 0x39B frame, and
\* bsiHandle39B.  saveOk, timeOk: the puts of bsiSaveState and those of
\* bsiPersistTime take effect
Rx39BBody(data, len, refuses, ok276, saveOk, timeOk) ==
  /\ phase = "loop" /\ loopPc = "rx" /\ drv = "running"
  /\ lastCanRx' = millis
  /\ IF Accepts39B(len)
       THEN LET ct    == Decode39B(data)
                S1    == bsiApplyLangUnits([BsiRec EXCEPT !.is24h = ct.is24])
                P1    == IF saveOk THEN SavedPrefs(prefs, S1) ELSE prefs
                epoch == LibMkTime(Tm39B(ct), refuses)
                conv  == epoch # TimeMinusOne
                epo   == IF conv THEN epoch ELSE clkEpoch
                ems   == IF conv THEN millis ELSE clkMs
                s76   == bsiSend276(S1.is24h, Now(epo, ems, millis), canStarted, ok276,
                                    lastBsi276, millis)
            IN  /\ bsiState260' = S1.state260 /\ bsiHave260' = S1.have260
                /\ bsiLang5' = S1.lang5 /\ bsiIs24h' = S1.is24h
                /\ bsiIsCelsius' = S1.isCelsius
                /\ clkEpoch' = epo /\ clkMs' = ems
                /\ bsiPersistedEpoch' = IF conv THEN epoch ELSE bsiPersistedEpoch
                /\ bsiPersistedEpochMillis' = IF conv THEN millis ELSE bsiPersistedEpochMillis
                /\ prefs' = IF conv /\ timeOk THEN PersistedTime(P1, epoch, millis) ELSE P1
                /\ nvsW' = (IF saveOk THEN SaveKeys ELSE {})
                             \cup (IF conv /\ timeOk THEN TimeKeys ELSE {})
                /\ lastBsi276' = s76.last /\ tx' = s76.tx
       ELSE /\ tx' = <<>> /\ nvsW' = {}
            /\ UNCHANGED <<bsiVars, timeVars, prefs, lastBsi276>>
  /\ lastOp' = [Op("rx39B", data, len) EXCEPT !.refused = len >= 5 /\ refuses]
  /\ drvOps' = <<>>
  /\ UNCHANGED <<phase, loopPc, millis, canVars, engineTemp, intakeAirTemp,
                 batteryVolt, lastBsi260>>

\* a 0x39B frame that arrives and is received at once
Rx39BPut(data, len, refuses, ok276, saveOk, timeOk) ==
  Rx39BBody(data, len, refuses, ok276, saveOk, timeOk) /\ UNCHANGED <<emu, rxq, otherVars>>

\* the same with the puts taking effect
Rx39B(data, len, refuses, ok276) == Rx39BPut(data, len, refuses, ok276, TRUE, TRUE)

\* the battery reading of a 0x0E6 frame, in decivolts; -1: none
RawDecivolt(data, len) ==
  LET r5 == IF len >= 6 THEN data[5] ELSE -1
  IN  IF (r5 <= 0 \/ r5 = 255) /\ len >= 7 THEN data[6] ELSE r5

\* one pass of the while loop of readCanMessages on a sensor frame:
\* 0x0F6 (246, temperatures) or 0x0E6 (230, battery)
RxSensor(id, data, len) ==
  /\ phase = "loop" /\ loopPc = "rx" /\ drv = "running"
  /\ lastCanRx' = millis
  /\ intakeAirTemp' = IF id = 246 /\ len >= 1 THEN data[0] - 39 ELSE intakeAirTemp
  /\ engineTemp' = IF id = 246 /\ len >= 2 THEN data[1] - 39 ELSE engineTemp
  /\ batteryVolt' = IF id = 230 /\ RawDecivolt(data, len) >= 0
                      THEN RawDecivolt(data, len) ELSE batteryVolt
  /\ lastOp' = Op("rxSensor", data, len) /\ tx' = <<>> /\ nvsW' = {} /\ drvOps' = <<>>
  /\ UNCHANGED <<phase, loopPc, millis, prefs, bsiVars, timeVars, canVars, schedVars>>
  /\ UNCHANGED <<emu, rxq, otherVars>>

\* faulty variant of RxDone: readCanMessages returns while frames wait
RxDoneEarly ==
  /\ phase = "loop" /\ loopPc = "rx"
  /\ loopPc' = "tick"
  /\ lastOp' = Op("rxDone", NoData, 0) /\ tx' = <<>> /\ nvsW' = {} /\ drvOps' = <<>>
  /\ UNCHANGED <<phase, millis, prefs, bsiVars, timeVars, canVars, sensVars, schedVars>>
  /\ UNCHANGED <<emu, rxq, otherVars>>

\* twai_receive finds nothing (more): readCanMessages returns
RxDone ==
  /\ phase = "loop" /\ loopPc = "rx"
  /\ rxq = <<>>
  /\ loopPc' = "tick"
  /\ lastOp' = Op("rxDone", NoData, 0) /\ tx' = <<>> /\ nvsW' = {} /\ drvOps' = <<>>
  /\ UNCHANGED <<phase, millis, prefs, bsiVars, timeVars, canVars, sensVars, schedVars>>
  /\ UNCHANGED <<emu, rxq, otherVars>>

\* bsiTick, at the end of loop()
BsiTick(ok260, ok276) ==
  /\ phase = "loop" /\ loopPc = "tick"
  /\ LET due60 == canStarted /\ Due(millis, lastBsi260, BSI_PERIOD_260_MS)
         due76 == canStarted /\ Due(millis, lastBsi276, BSI_PERIOD_276_MS)
         s60   == IF due60 THEN bsiSend260(BsiRec, canStarted, ok260, lastBsi260, millis)
                  ELSE [S |-> BsiRec, tx |-> <<>>, last |-> lastBsi260]
         s76   == IF due76
                    THEN bsiSend276(bsiIs24h, Now(clkEpoch, clkMs, millis), canStarted,
                                    ok276, lastBsi276, millis)
                  ELSE [tx |-> <<>>, last |-> lastBsi276]
     IN  /\ bsiState260' = s60.S.state260 /\ bsiHave260' = s60.S.have260
         /\ bsiLang5' = s60.S.lang5 /\ bsiIs24h' = s60.S.is24h
         /\ bsiIsCelsius' = s60.S.isCelsius
         /\ lastBsi260' = s60.last /\ lastBsi276' = s76.last
         /\ tx' = s60.tx \o s76.tx
  /\ loopPc' = "client"
  /\ lastOp' = Op("tick", NoData, 0) /\ nvsW' = {} /\ drvOps' = <<>>
  /\ UNCHANGED <<phase, millis, prefs, timeVars, canVars, sensVars>>
  /\ UNCHANGED <<emu, rxq, otherVars>>

\* time passes between two iterations of loop(); cap bounds millis()
Advance(dt, cap) ==
  /\ phase = "loop" /\ loopPc = "client"
  /\ millis + dt <= cap
  /\ millis' = millis + dt
  /\ lastOp' = Op("advance", NoData, 0) /\ tx' = <<>> /\ nvsW' = {} /\ drvOps' = <<>>
  /\ UNCHANGED <<phase, loopPc, prefs, bsiVars, timeVars, canVars, sensVars, schedVars>>
  /\ UNCHANGED <<emu, rxq, otherVars>>

----------------------------------------------------------------------------
(* Inputs *)

HwOutcomes == {"ok", "noInstall", "noStart"}


\* millis() when setup() reaches bsiLoadState
BootMs == {SetupDelayMs, SetupDelayMs + 1500}

\* persisted content found at the first power-on
PrefsFresh == EmptyPrefs
PrefsZeroFrame ==
  [EmptyPrefs EXCEPT !.has = {"raw260", "lang5", "isc"}, !.lang5 = 37]
PrefsOdd ==
  [EmptyPrefs EXCEPT !.has = {"raw260", "is24h"},
                     !.raw260 = Frame8(<<3, 251, 17, 0, 0, 0, 0, 0>>)]

\* 0x15B frames: <<byte 0, byte 1, fill of bytes 2..7>>, any length 1..8
Frame15B(d0, d1, fill) == [i \in 0..7 |-> IF i = 0 THEN d0 ELSE IF i = 1 THEN d1 ELSE fill]

\* the /prefs requests of the settings specification: <<is24, isC>>
PrefsArgs == { <<"none", "none">>, <<"0", "none">>, <<"none", "0">>, <<"1", "1">> }

\* the 0x15B writes of the settings specification: <<frame, length>>.
\* byte 0: 148 = 0x94 (lang/units flag, language 5), 229 = 0xE5 (flag,
\* language 25, low bits 01), 23 = 0x17 (no flag, language 5, low bits 11);
\* byte 1: 68 = 0x44 (tail flag, Celsius), 4 (tail flag), 64 (Celsius), 0.
SetWrites ==
  { <<Frame15B(d0, d1, 165), n>> : d0 \in {148, 23}, d1 \in {68, 4, 64, 0}, n \in {2, 8} }
  \cup { <<Frame15B(229, d1, 165), 8>> : d1 \in {4, 64} }
  \cup { <<Frame15B(d0, 68, 165), 1>> : d0 \in {148, 23} }
  \cup { <<Frame15B(d0, d1, 165), 5>> : d0 \in {148, 23}, d1 \in {68, 4} }

\* 0x39B frames of the settings specification
Frame39B(is24, y, mo, d, h, mi) ==
  [i \in 0..7 |->
    CASE i = 0 -> (IF is24 THEN 128 ELSE 0) + y
      [] i = 1 -> mo
      [] i = 2 -> d
      [] i = 3 -> h
      [] i = 4 -> mi
      [] OTHER -> 0]

\* sensor frames: temperatures (0x0F6) and battery (0x0E6)
SensorFrames ==
  { <<246, Frame8(<<60, 129, 0, 0, 0, 0, 0, 0>>), 8>>,
    <<230, Frame8(<<0, 0, 0, 0, 0, 137, 0, 0>>), 8>> }

\* the 0x15B writes of the whole-program specification: language and units
\* without a tail, a full tail, a short tail without the lang/units flag, and
\* a write with neither flag
FewWrites ==
  { <<Frame15B(148, 0, 165), 2>>, <<Frame15B(229, 68, 165), 8>>,
    <<Frame15B(23, 4, 165), 5>>, <<Frame15B(23, 64, 165), 8>> }

----------------------------------------------------------------------------
(* The whole program: every handler, few inputs *)

Init == InitWith({PrefsFresh, PrefsZeroFrame, PrefsOdd})

Next ==
  \/ \E hw \in HwOutcomes : Setup(SetupDelayMs, hw, TRUE, TRUE)
  \/ Reboot(SetupDelayMs, "ok", TRUE, TRUE)
  \/ HandleIdle
  \/ \E a \in PrefsArgs : HandlePrefs(a[1], a[2], TRUE, TRUE)
  \/ \E hw \in HwOutcomes : HandleCfg("k125k", hw, TRUE, TRUE)
  \/ \E w \in FewWrites : Rx15B(w[1], w[2], TRUE)
  \/ Rx39B(Frame39B(FALSE, 24, 3, 15, 14, 30), 5, FALSE, TRUE)
  \/ \E f \in SensorFrames : RxSensor(f[1], f[2], f[3])
  \/ RxDone
  \/ BsiTick(TRUE, TRUE)
  \/ Advance(1000, SetupDelayMs + MaxTicks * 1000)

Spec == Init /\ [][Next]_vars

----------------------------------------------------------------------------
(* The settings state: boots, settings writes, preferences, reconfigures, ticks *)

NextSettings ==
  \/ \E hw \in HwOutcomes : Setup(SetupDelayMs, hw, TRUE, TRUE)
  \/ \E hw \in HwOutcomes : Reboot(SetupDelayMs, hw, TRUE, TRUE)
  \/ HandleIdle
  \/ \E a \in PrefsArgs : HandlePrefs(a[1], a[2], TRUE, TRUE)
  \/ \E hw \in HwOutcomes : HandleCfg("k125k", hw, TRUE, TRUE)
  \/ \E w \in SetWrites : Rx15B(w[1], w[2], TRUE)
  \/ RxDone
  \/ \E ok \in BOOLEAN : BsiTick(ok, TRUE)
  \/ Advance(1000, SetupDelayMs + MaxTicks * 1000)

SpecSettings == Init /\ [][NextSettings]_vars

----------------------------------------------------------------------------
(* The clock: boots at two tick counts, date/time writes, ticks *)

\* persisted content with an epoch (2023-11-14 22:13:20) and no reference:
\* power was lost between the two puts of bsiPersistTime
PrefsEpochNoRef ==
  [EmptyPrefs EXCEPT !.has = {"epoch"}, !.epoch = TimeT(19675, 80000)]

\* 0x39B writes, 5 bytes each.  Dates: the ends of February, April and
\* December in 2000, 2023, 2024 and 2100, day fields up to 31.  Times: the
\* ends of the hour and minute ranges, both 24h flags.  Years beyond the
\* range of a 32-bit long.  Out-of-range fields: months 13 and 15, hours 24
\* and 31, minutes 60 and 63.
DateWrites ==
  { Frame39B(TRUE, y, mo, d, 12, 30) :
      y \in {0, 23, 24, 100}, mo \in {2, 4, 12}, d \in {1, 28, 29, 30, 31} }
ClockWrites ==
  { Frame39B(f, 24, 3, 15, h, mi) : f \in BOOLEAN, h \in {0, 23}, mi \in {0, 59} }
FarWrites == { Frame39B(TRUE, y, 1, 1, 0, 0) : y \in {38, 40, 127} }
OutOfRangeWrites ==
  { Frame39B(FALSE, 24, mo, 15, 14, 30) : mo \in {13, 15} }
  \cup { Frame39B(FALSE, 24, 3, 15, h, 30) : h \in {24, 31} }
  \cup { Frame39B(FALSE, 24, 12, 31, 23, mi) : mi \in {60, 63} }
TimeWrites == DateWrites \cup ClockWrites \cup FarWrites \cup OutOfRangeWrites

InitTime == InitWith({PrefsFresh, PrefsEpochNoRef})

NextTime ==
  \/ \E b \in BootMs : Setup(b, "ok", TRUE, TRUE)
  \/ \E b \in BootMs : Reboot(b, "ok", TRUE, TRUE)
  \/ HandleIdle
  \/ \E f \in TimeWrites : Rx39B(f, 5, FALSE, TRUE)
  \/ RxDone
  \/ BsiTick(TRUE, TRUE)
  \/ Advance(1000, SetupDelayMs + MaxTicks * 1000)

SpecTime == InitTime /\ [][NextTime]_vars

----------------------------------------------------------------------------
(* Date/time writes with a month or a day of 0 *)

\* 0x39B writes, 5 bytes each: month 0 with days 1, 15 and 31, day 0 with
\* the months 2, 4 and 12, both 0, and a write without a 0
ZeroWrites ==
  { Frame39B(f, 24, 0, d, h, 30) : f \in BOOLEAN, d \in {0, 1, 15, 31}, h \in {0, 23} }
  \cup { Frame39B(TRUE, y, mo, 0, 14, 59) : y \in {0, 23}, mo \in {2, 4, 12} }
  \cup { Frame39B(TRUE, 24, 3, 15, 14, 30) }

InitZero == InitWith({PrefsFresh})

NextZero ==
  \/ Setup(SetupDelayMs, "ok", TRUE, TRUE)
  \/ Reboot(SetupDelayMs, "ok", TRUE, TRUE)
  \/ HandleIdle
  \/ \E f \in ZeroWrites : Rx39B(f, 5, FALSE, TRUE)
  \/ RxDone
  \/ BsiTick(TRUE, TRUE)
  \/ Advance(1000, SetupDelayMs + MaxTicks * 1000)

SpecZero == InitZero /\ [][NextZero]_vars

----------------------------------------------------------------------------
(* The clock when the library refuses a conversion *)

NextConvFail ==
  \/ Setup(SetupDelayMs, "ok", TRUE, TRUE)
  \/ Reboot(SetupDelayMs, "ok", TRUE, TRUE)
  \/ HandleIdle
  \/ \E f \in ClockWrites \cup FarWrites, refuses \in BOOLEAN : Rx39B(f, 5, refuses, TRUE)
  \/ RxDone
  \/ BsiTick(TRUE, TRUE)
  \/ Advance(1000, SetupDelayMs + MaxTicks * 1000)

SpecConvFail == Init /\ [][NextConvFail]_vars

----------------------------------------------------------------------------
(* The transport and the scheduler: every outcome of install, start and   *)
(* transmit; well-formed and malformed writes                              *)

\* 0x15B and 0x39B frames as <<frame, length>>: an accepted one of each, a
\* settings frame of length 0 and a date/time frame of length 4
BusWrites15B == { <<Frame15B(148, 68, 165), 8>>, <<Frame15B(148, 68, 165), 0>> }
BusWrites39B ==
  { <<Frame39B(TRUE, 24, 3, 15, 14, 30), 5>>, <<Frame39B(FALSE, 25, 6, 1, 8, 5), 4>> }

InitBus == InitWith({PrefsFresh})

NextBus ==
  \/ \E hw \in HwOutcomes, a, b \in BOOLEAN : Setup(SetupDelayMs, hw, a, b)
  \/ \E hw \in HwOutcomes : Reboot(SetupDelayMs, hw, TRUE, TRUE)
  \/ HandleIdle
  \/ \E hw \in HwOutcomes, a, b \in BOOLEAN : HandleCfg("k125k", hw, a, b)
  \/ \E w \in BusWrites15B, a \in BOOLEAN : Rx15B(w[1], w[2], a)
  \/ \E w \in BusWrites39B, b \in BOOLEAN : Rx39B(w[1], w[2], FALSE, b)
  \/ RxDone
  \/ \E a, b \in BOOLEAN : BsiTick(a, b)
  \/ Advance(500, SetupDelayMs + MaxTicks * 1000)

SpecBus == InitBus /\ [][NextBus]_vars

----------------------------------------------------------------------------
(* Boots and settings writes: every persisted content, every write *)

InitBoot == InitWith({PrefsFresh, PrefsZeroFrame, PrefsOdd})

NextBoot ==
  \/ \E hw \in {"ok", "noInstall"} : Setup(SetupDelayMs, hw, TRUE, TRUE)
  \/ \E hw \in {"ok", "noInstall"} : Reboot(SetupDelayMs, hw, TRUE, TRUE)
  \/ HandleIdle
  \/ \E w \in SetWrites, ok \in BOOLEAN : Rx15B(w[1], w[2], ok)
  \/ RxDone
  \/ BsiTick(TRUE, TRUE)
  \/ Advance(500, SetupDelayMs + MaxTicks * 500)

SpecBoot == InitBoot /\ [][NextBoot]_vars

----------------------------------------------------------------------------
(* Writes whose persistence may not take effect *)

PutWrites15B == { <<Frame15B(148, 68, 165), 8>>, <<Frame15B(229, 4, 90), 1>> }
PutWrites39B == { Frame39B(FALSE, 24, 3, 15, 14, 30), Frame39B(TRUE, 25, 12, 31, 23, 59) }

InitPut == InitWith({PrefsFresh})

NextPut ==
  \/ Setup(SetupDelayMs, "ok", TRUE, TRUE)
  \/ HandleIdle
  \/ \E w \in PutWrites15B, putOk \in BOOLEAN : Rx15BPut(w[1], w[2], TRUE, putOk)
  \/ \E f \in PutWrites39B, saveOk, timeOk \in BOOLEAN :
       Rx39BPut(f, 5, FALSE, TRUE, saveOk, timeOk)
  \/ RxDone
  \/ BsiTick(TRUE, TRUE)
  \/ Advance(1000, SetupDelayMs + MaxTicks * 1000)

SpecPut == InitPut /\ [][NextPut]_vars

----------------------------------------------------------------------------
(* The receive queue: frames arrive at any moment, loop() drains them *)

\* a frame in the driver's queue
Msg(id, data, len) == [id |-> id, data |-> data, len |-> len]

QueueFrames ==
  { Msg(CAN_ID_15B, Frame15B(148, 68, 165), 8), Msg(CAN_ID_15B, Frame15B(229, 4, 90), 2),
    Msg(CAN_ID_39B, Frame39B(FALSE, 24, 3, 15, 14, 30), 5) }

\* the driver puts a frame from the bus in its queue (interrupt; any moment
\* while the driver runs)
Arrive(f) ==
  /\ phase = "loop" /\ drv = "running"
  /\ Len(rxq) < MaxQueue
  /\ rxq' = Append(rxq, f)
  /\ lastOp' = Op("arrive", f.data, f.len) /\ tx' = <<>> /\ nvsW' = {} /\ drvOps' = <<>>
  /\ UNCHANGED <<phase, loopPc, millis, prefs, bsiVars, timeVars, canVars, sensVars,
                 schedVars>>
  /\ UNCHANGED <<emu, otherVars>>

\* one pass of the while loop of readCanMessages: twai_receive takes the
\* oldest frame of the queue, and the frame is handled
Receive(ok260, ok276) ==
  /\ rxq # <<>>
  /\ LET f == Head(rxq)
     IN  IF f.id = CAN_ID_15B THEN Rx15BBody(f.data, f.len, ok260, TRUE)
         ELSE Rx39BBody(f.data, f.len, FALSE, ok276, TRUE, TRUE)
  /\ rxq' = Tail(rxq)
  /\ UNCHANGED <<emu, otherVars>>

InitQueue == InitWith({PrefsFresh})

NextQueue ==
  \/ Setup(SetupDelayMs, "ok", TRUE, TRUE)
  \/ HandleIdle
  \/ \E f \in QueueFrames : Arrive(f)
  \/ \E a, b \in BOOLEAN : Receive(a, b)
  \/ RxDone
  \/ BsiTick(TRUE, TRUE)
  \/ Advance(500, SetupDelayMs + MaxTicks * 500)

SpecQueue == InitQueue /\ [][NextQueue]_vars

----------------------------------------------------------------------------
(* The clock over minutes: set-time requests, a date/time write, ticks *)

Iso(n, y, mo, d, h, mi, sec) ==
  [matched |-> n, year |-> y, month |-> mo, day |-> d, hour |-> h, minute |-> mi,
   second |-> sec]

\* /time requests: no argument; epoch=0; epoch=1700000000 (2023-11-14
\* 22:13:20); iso dates in 1985, 2024 and 2200, one without seconds; a month
\* 13; a text of which sscanf reads two fields
TimeArgs ==
  { <<"none">>, <<"epoch", TimeZero>>, <<"epoch", TimeT(19675, 80000)>>,
    <<"iso", Iso(5, 1985, 6, 15, 12, 30, 0)>>, <<"iso", Iso(6, 2024, 2, 29, 23, 59, 59)>>,
    <<"iso", Iso(6, 2200, 1, 1, 0, 0, 0)>>, <<"iso", Iso(6, 2024, 13, 1, 0, 0, 0)>>,
    <<"iso", Iso(2, 2024, 3, 0, 0, 0, 0)>> }

\* the tick count between two iterations of loop() that the clock
\* specification looks at
MinuteMs == 60000

InitClock == InitWith({PrefsFresh})

NextClock ==
  \/ \E hw \in {"ok", "noStart"} : Setup(SetupDelayMs, hw, TRUE, TRUE)
  \/ Reboot(SetupDelayMs, "ok", TRUE, TRUE)
  \/ HandleIdle
  \/ \E a \in TimeArgs, ok \in BOOLEAN : HandleTime(a, ok)
  \/ \E f \in {TRUE, FALSE} : Rx39B(Frame39B(f, 24, 3, 15, 14, 30), 5, FALSE, TRUE)
  \/ RxDone
  \/ BsiTick(TRUE, TRUE)
  \/ Advance(MinuteMs, SetupDelayMs + MaxTicks * MinuteMs)

SpecClock == InitClock /\ [][NextClock]_vars

----------------------------------------------------------------------------
(* The transport stopped or started: every request, writes, ticks *)

InitStopped == InitWith({PrefsFresh})

NextStopped ==
  \/ \E hw \in HwOutcomes : Setup(SetupDelayMs, hw, TRUE, TRUE)
  \/ HandleIdle
  \/ \E aC \in {"0", "1"} : HandlePrefs("0", aC, TRUE, TRUE)
  \/ HandleTime(<<"iso", Iso(6, 2024, 2, 29, 23, 59, 59)>>, TRUE)
  \/ \E n \in {BTN_SETTINGS, 5}, ok \in BOOLEAN :
       HandleBtn(n, ok, TRUE, SetupDelayMs + MaxTicks * 1000 + PressDelayMs + IdleDelayMs)
  \/ \E hw \in {"ok", "noStart"} : HandleCfg("k125k", hw, TRUE, TRUE)
  \/ Rx15B(Frame15B(148, 68, 165), 8, TRUE)
  \/ RxDone
  \/ BsiTick(TRUE, TRUE)
  \/ Advance(1000, SetupDelayMs + MaxTicks * 1000)

SpecStopped == InitStopped /\ [][NextStopped]_vars

----------------------------------------------------------------------------
(* The standalone emulator, smeg_time_language_emulator.ino.  e is the     *)
(* record of its globals; pc is "reset" before setup(), "hang" in the      *)
(* endless delay loop of setup(), "rx" in the receive loop of loop() and   *)
(* "tick" at its periodic part.                                            *)

applyLangAndUnitsTo260(e) ==
  [e EXCEPT !.state260 = [@ EXCEPT ![0] = LangByte0(@, e.lang5),
                                   ![1] = bsiSetBit(@, 6, e.isCelsius)]]

saveStateToNvs(e) == [e EXCEPT !.nvs = SavedPrefs(e.nvs, e)]

persistTimeToNvs(e, epoch) ==
  [e EXCEPT !.nvs = PersistedTime(e.nvs, epoch, e.millis),
            !.persistedEpoch = epoch, !.persistedEpochMillis = e.millis]

loadStateFromNvs(e) ==
  LET P == e.nvs
      L == [e EXCEPT !.lang5 = IF "lang5" \in P.has THEN P.lang5 ELSE @,
                     !.is24h = IF "is24h" \in P.has THEN P.is24h ELSE @,
                     !.isCelsius = IF "isc" \in P.has THEN P.isc ELSE @,
                     !.state260 = IF "raw260" \in P.has THEN P.raw260
                                  ELSE [ZeroFrame EXCEPT ![0] = 128],
                     !.have260Baseline = TRUE]
      C == LoadClock(P, e.millis)
  IN  [applyLangAndUnitsTo260(L) EXCEPT
         !.persistedEpoch = C.persistedEpoch, !.persistedEpochMillis = C.persistedMs,
         !.clkEpoch = IF C.sets THEN C.epoch ELSE @,
         !.clkMs = IF C.sets THEN e.millis ELSE @]

apply15BtoState(e, msg, len) ==
  IF ~e.have260Baseline THEN e
  ELSE LET T == IF UseTail(msg, len)
                  THEN [e EXCEPT !.state260 = TailCopy(@, msg, len)] ELSE e
           U == IF UseLangUnits(msg)
                  THEN [T EXCEPT !.lang5 = Lang5Of(msg[0]),
                                 !.isCelsius = TestBit(msg[1], 6)]
                  ELSE T
       IN  saveStateToNvs(applyLangAndUnitsTo260(U))

\* handle39B; refuses: mktime reports (time_t)-1
handle39B(e, data, len, refuses) ==
  IF len < 5 THEN e
  ELSE LET ct    == Decode39B(data)
           S     == saveStateToNvs([e EXCEPT !.is24h = ct.is24])
           epoch == LibMkTime(Tm39B(ct), refuses)
       IN  IF epoch # TimeMinusOne
             THEN persistTimeToNvs([S EXCEPT !.clkEpoch = epoch, !.clkMs = e.millis], epoch)
             ELSE S

\* send260 and send276: the globals after the call and the frame handed to
\* twai_transmit; ok is the result of canSend, which neither looks at
send260(e, ok) ==
  LET A == applyLangAndUnitsTo260(e)
  IN  [A EXCEPT !.tx = @ \o <<TxFrame(ID_260, A.state260, 8, ok)>>]

send276(e, ok) ==
  [e EXCEPT !.tx = @ \o <<TxFrame(ID_276,
                                  bsiBuild276(e.is24h, Now(e.clkEpoch, e.clkMs, e.millis)),
                                  7, ok)>>]

\* setup(): delay(200), loadStateFromNvs, canInit125k; when that fails
\* setup() does not return
EmuSetup(hw) ==
  /\ emu.pc = "reset"
  /\ LET D == [emu EXCEPT !.millis = @ + EmuSetupDelayMs]
         S == [loadStateFromNvs(D) EXCEPT !.op = Op("setup", <<hw>>, 0), !.tx = <<>>]
     IN  emu' = IF hw = "ok"
                  THEN [S EXCEPT !.pc = "rx", !.last260 = S.millis, !.last276 = S.millis]
                  ELSE [S EXCEPT !.pc = "hang"]
  /\ UNCHANGED <<remoteVars, otherVars>>

\* one pass of while (true) delay(1000) at the end of a failed setup()
EmuHang ==
  /\ emu.pc = "hang"
  /\ emu.millis + EmuHangDelayMs <= EmuSetupDelayMs + EmuMaxSteps * EmuHangDelayMs
  /\ emu' = [emu EXCEPT !.millis = @ + EmuHangDelayMs, !.op = Op("delay", NoData, 0),
                        !.tx = <<>>]
  /\ UNCHANGED <<remoteVars, otherVars>>

\* power is lost and comes back: the globals are initialised again, NVS
\* holds what it held
EmuPower ==
  /\ emu.pc # "reset"
  /\ emu' = EmuPowerOn(emu.nvs)
  /\ UNCHANGED <<remoteVars, otherVars>>

\* one pass of the while loop of loop() on a 0x15B frame
EmuRx15B(data, len, ok) ==
  /\ emu.pc = "rx"
  /\ LET e0 == [emu EXCEPT !.op = Op("rx15B", data, len), !.tx = <<>>]
         n  == IF len > 8 THEN 8 ELSE len
     IN  emu' = IF len > 0 THEN send260(apply15BtoState(e0, PadFrame(data, n), n), ok)
                ELSE e0
  /\ UNCHANGED <<remoteVars, otherVars>>

\* one pass of the while loop of loop() on a 0x39B frame
EmuRx39B(data, len, refuses, ok) ==
  /\ emu.pc = "rx"
  /\ LET e0 == [emu EXCEPT !.op = [Op("rx39B", data, len) EXCEPT !.refused = len >= 5 /\ refuses],
                           !.tx = <<>>]
     IN  emu' = IF len >= 5 THEN send276(handle39B(e0, data, len, refuses), ok) ELSE e0
  /\ UNCHANGED <<remoteVars, otherVars>>

\* canReceive finds nothing (more): the while loop ends
EmuRxDone ==
  /\ emu.pc = "rx"
  /\ emu' = [emu EXCEPT !.pc = "tick", !.op = Op("rxDone", NoData, 0), !.tx = <<>>]
  /\ UNCHANGED <<remoteVars, otherVars>>

\* the periodic part of loop(): each timestamp is taken before the send
EmuTick(ok260, ok276) ==
  /\ emu.pc = "tick"
  /\ LET now == emu.millis
         e0  == [emu EXCEPT !.pc = "rx", !.op = Op("tick", NoData, 0), !.tx = <<>>]
         e1  == IF Due(now, e0.last260, PERIOD_260_MS)
                  THEN send260([e0 EXCEPT !.last260 = now], ok260) ELSE e0
         e2  == IF Due(now, e1.last276, PERIOD_276_MS)
                  THEN send276([e1 EXCEPT !.last276 = now], ok276) ELSE e1
     IN  emu' = e2
  /\ UNCHANGED <<remoteVars, otherVars>>

\* time passes between two iterations of loop()
EmuAdvance(dt) ==
  /\ emu.pc = "rx" /\ emu.op.op \in {"setup", "tick"}
  /\ emu.millis + dt <= EmuSetupDelayMs + EmuMaxSteps * PERIOD_260_MS
  /\ emu' = [emu EXCEPT !.millis = @ + dt, !.op = Op("advance", NoData, 0), !.tx = <<>>]
  /\ UNCHANGED <<remoteVars, otherVars>>

\* NVS of the emulator: empty, and a frame with the low bits 11 and a 24h flag
EmuPrefs == {PrefsFresh, PrefsOdd}

EmuWrites15B == { <<Frame15B(148, 68, 165), 8>>, <<Frame15B(23, 4, 90), 3>> }
EmuWrites39B ==
  { <<Frame39B(TRUE, 24, 3, 15, 14, 30), 5>>, <<Frame39B(FALSE, 25, 6, 1, 8, 5), 4>> }

InitEmu ==
  /\ RemoteInit({PrefsFresh}) /\ emu \in { EmuPowerOn(P) : P \in EmuPrefs }
  /\ OtherPowerOn

NextEmu ==
  \/ \E hw \in HwOutcomes : EmuSetup(hw)
  \/ EmuHang
  \/ EmuPower
  \/ \E w \in EmuWrites15B, ok \in BOOLEAN : EmuRx15B(w[1], w[2], ok)
  \/ \E w \in EmuWrites39B, ok \in BOOLEAN : EmuRx39B(w[1], w[2], FALSE, ok)
  \/ EmuRxDone
  \/ \E a, b \in BOOLEAN : EmuTick(a, b)
  \/ EmuAdvance(PERIOD_260_MS)

SpecEmu == InitEmu /\ [][NextEmu]_vars

----------------------------------------------------------------------------
(* Settings writes of one byte, in both programs *)

\* a full write (language 5, Celsius, tail 165) and writes of length 1 whose
\* buffer holds more than the one byte: with the lang/units flag (language
\* 25) and without it
ShortWrites ==
  { <<Frame15B(148, 68, 165), 8>>, <<Frame15B(229, 68, 90), 1>>, <<Frame15B(23, 68, 90), 1>> }

InitShort == InitWith({PrefsFresh})

NextShort ==
  \/ Setup(SetupDelayMs, "ok", TRUE, TRUE)
  \/ HandleIdle
  \/ \E w \in ShortWrites : Rx15B(w[1], w[2], TRUE)
  \/ RxDone
  \/ BsiTick(TRUE, TRUE)
  \/ Advance(500, SetupDelayMs + MaxTicks * 500)
  \/ EmuSetup("ok")
  \/ \E w \in ShortWrites : EmuRx15B(w[1], w[2], TRUE)
  \/ EmuRxDone
  \/ EmuTick(TRUE, TRUE)

SpecShort == InitShort /\ [][NextShort]_vars

----------------------------------------------------------------------------
(* bsiApplyLangUnits and applyLangAndUnitsTo260 on their own *)

\* frames, language bytes (lang5 is a uint8_t that bsiLoadState reads from
\* NVS without masking) and unit flags the function is applied to
ApplyBytes0 == {0, 3, 86, 129, 255}
ApplyBytes1 == {0, 64, 191, 255}
ApplyTails == {<<0, 0, 0, 0, 0, 0>>, <<17, 34, 51, 68, 85, 255>>}
ApplyFrames ==
  { [i \in 0..7 |-> IF i = 0 THEN b0 ELSE IF i = 1 THEN b1 ELSE t[i - 1]] :
      b0 \in ApplyBytes0, b1 \in ApplyBytes1, t \in ApplyTails }
ApplyLangs == {0, 5, 31, 37}

InitApply ==
  /\ phase = "reset" /\ loopPc = "client" /\ millis = 0
  /\ clkEpoch = TimeZero /\ clkMs = 0
  /\ prefs = EmptyPrefs
  /\ bsiState260 \in ApplyFrames /\ bsiHave260 = TRUE
  /\ bsiLang5 \in ApplyLangs /\ bsiIs24h = TRUE
  /\ bsiIsCelsius \in BOOLEAN
  /\ bsiPersistedEpoch = TimeZero /\ bsiPersistedEpochMillis = 0
  /\ canStarted = FALSE /\ currentBitrate = "k125k"
  /\ lastCanRx = 0 /\ engineTemp = -99 /\ intakeAirTemp = -99 /\ batteryVolt = 0
  /\ lastBsi260 = 0 /\ lastBsi276 = 0
  /\ drv = "uninstalled"
  /\ lastOp = Op("power", NoData, 0) /\ tx = <<>> /\ nvsW = {} /\ drvOps = <<>>
  /\ rxq = <<>>
  /\ emu = [EmuPowerOn(EmptyPrefs) EXCEPT !.state260 = bsiState260, !.lang5 = bsiLang5,
                                          !.isCelsius = bsiIsCelsius]
  /\ OtherPowerOn

\* a call of bsiApplyLangUnits
ApplyLangUnits ==
  /\ LET S == bsiApplyLangUnits(BsiRec)
     IN  /\ bsiState260' = S.state260 /\ bsiHave260' = S.have260
         /\ bsiLang5' = S.lang5 /\ bsiIs24h' = S.is24h /\ bsiIsCelsius' = S.isCelsius
  /\ lastOp' = Op("apply", NoData, 0)
  /\ UNCHANGED <<phase, loopPc, millis, timeVars, prefs, canVars, sensVars, lastBsi260,
                 lastBsi276, tx, nvsW, drvOps>>
  /\ UNCHANGED <<emu, rxq, otherVars>>

\* a call of applyLangAndUnitsTo260
EmuApplyLangUnits ==
  /\ emu' = [applyLangAndUnitsTo260(emu) EXCEPT !.op = Op("apply", NoData, 0)]
  /\ UNCHANGED <<remoteVars, otherVars>>

NextApply == ApplyLangUnits \/ EmuApplyLangUnits

SpecApply == InitApply /\ [][NextApply]_vars

----------------------------------------------------------------------------
(* Properties of the settings frame 0x260 *)

\* the 0x260 frames handed to the transport by the last operation
Sent260 == { k \in 1..Len(tx) : tx[k].id = CAN_ID_260 }

\* the last operation was a settings write of length 1..8
IsWrite(op) == op.op = "rx15B" /\ op.len >= 1 /\ op.len <= 8
WriteHasLangFlag(op) == TestBit(op.data[0], 7)
WriteHasTailFlag(op) == op.len >= 2 /\ TestBit(op.data[1], 2)

\* bits 6:2 of a byte
Bits6to2(x) == (x \div 4) % 32

\* a byte with its bit 6 cleared
WithoutBit6(x) == x - (IF TestBit(x, 6) THEN 64 ELSE 0)

\* C1: every 0x260 frame handed to the transport has byte 0 bit 7 set,
\* whatever boots, settings writes, preference changes, reconfigures and
\* ticks came before.
C1_MenuBitSet == \A k \in Sent260 : tx[k].data[0] >= 128

\* C1 happens: a boot that found an all-zero persisted frame has sent a
\* 0x260 frame.
C1_Witness ==
  /\ lastOp.op \in {"setup", "reboot"} /\ Sent260 # {}
  /\ "raw260" \in prefs.has /\ AllZero(prefs.raw260)

\* C2: after a settings write of length 1..8 with the lang/units flag set,
\* the 0x260 frame sent right after it carries the input's byte 0 bits 6:2.
C2_LangBitsFollowInput ==
  (IsWrite(lastOp) /\ WriteHasLangFlag(lastOp))
    => /\ Len(tx) = 1 /\ tx[1].id = CAN_ID_260
       /\ Bits6to2(tx[1].data[0]) = Bits6to2(lastOp.data[0])

\* C2 happens: a write with the flag set has changed the language code
\* from another value.
C2_Witness ==
  /\ IsWrite(lastOp) /\ WriteHasLangFlag(lastOp) /\ Len(tx) = 1
  /\ Bits6to2(lastOp.data[0]) = 25 /\ bsiLang5 = 25

\* C3 as stated: after a settings write of length len in 2..8 with the tail
\* flag set, bytes 1..len-1 of the 0x260 frame sent after it equal the input
\* bytes, all 8 bits of each, and the bytes from len on are those stored
\* before the write.
C3_TailEqualsInput ==
  [][ (IsWrite(lastOp') /\ WriteHasTailFlag(lastOp'))
        => /\ Len(tx') = 1 /\ tx'[1].id = CAN_ID_260
           /\ \A i \in 1..7 :
                tx'[1].data[i] = IF i < lastOp'.len THEN lastOp'.data[i]
                                 ELSE bsiState260[i] ]_vars

\* C3, amended: as C3, except that bit 6 of byte 1 is the stored Celsius
\* flag after the write: the input's bit 6 when the lang/units flag is set,
\* the flag stored before the write when it is not.
C3_TailEqualsInputButCelsius ==
  [][ (IsWrite(lastOp') /\ WriteHasTailFlag(lastOp'))
        => /\ Len(tx') = 1 /\ tx'[1].id = CAN_ID_260
           /\ \A i \in 2..7 :
                tx'[1].data[i] = IF i < lastOp'.len THEN lastOp'.data[i]
                                 ELSE bsiState260[i]
           /\ WithoutBit6(tx'[1].data[1]) = WithoutBit6(lastOp'.data[1])
           /\ TestBit(tx'[1].data[1], 6) =
                IF WriteHasLangFlag(lastOp') THEN TestBit(lastOp'.data[1], 6)
                ELSE bsiIsCelsius ]_vars

\* C3 happens: a tail write without the lang/units flag whose byte 1 bit 6
\* differs from the stored Celsius flag, shorter than the frame.
C3_Witness ==
  /\ IsWrite(lastOp) /\ WriteHasTailFlag(lastOp) /\ ~WriteHasLangFlag(lastOp)
  /\ lastOp.len = 5 /\ Len(tx) = 1
  /\ TestBit(lastOp.data[1], 6) # bsiIsCelsius

\* C4: a settings write with neither the lang/units flag nor the tail flag
\* leaves the stored frame, language code and Celsius flag as they were, and
\* the 0x260 frame sent after it is the stored one.
C4_NeitherFlagIsNoop ==
  [][ (IsWrite(lastOp') /\ ~WriteHasLangFlag(lastOp') /\ ~WriteHasTailFlag(lastOp'))
        => /\ bsiState260' = bsiState260
           /\ bsiLang5' = bsiLang5 /\ bsiIsCelsius' = bsiIsCelsius
           /\ Len(tx') = 1 /\ tx'[1].id = CAN_ID_260
           /\ tx'[1].data = bsiState260 ]_vars

\* C4 happens: a write with neither flag, whose language and Celsius bits
\* differ from the stored ones, has been answered with a 0x260 frame.
C4_Witness ==
  /\ IsWrite(lastOp) /\ ~WriteHasLangFlag(lastOp) /\ ~WriteHasTailFlag(lastOp)
  /\ lastOp.len = 8 /\ Len(tx) = 1
  /\ Bits6to2(lastOp.data[0]) # LowBits(bsiLang5, 5)
  /\ TestBit(lastOp.data[1], 6) # bsiIsCelsius

\* C5 as stated: bytes 1..7 of the stored settings frame change only in a
\* settings write with the tail flag set; no other operation of the running
\* program, a reboot included, changes any bit of them.
C5_TailOnlyByTailWrite ==
  [][ (phase = "loop" /\ ~(IsWrite(lastOp') /\ WriteHasTailFlag(lastOp')))
        => \A i \in 1..7 : bsiState260'[i] = bsiState260[i] ]_vars

\* C5, amended: bytes 2..7 and every bit of byte 1 but bit 6 change only in
\* a settings write with the tail flag set; bit 6 of byte 1 is the stored
\* Celsius flag after every operation.
C5_TailButCelsiusOnlyByTailWrite ==
  [][ phase = "loop"
        => /\ ~(IsWrite(lastOp') /\ WriteHasTailFlag(lastOp'))
                => /\ \A i \in 2..7 : bsiState260'[i] = bsiState260[i]
                   /\ WithoutBit6(bsiState260'[1]) = WithoutBit6(bsiState260[1])
           /\ TestBit(bsiState260'[1], 6) = bsiIsCelsius' ]_vars

\* C5 happens: a reboot has reloaded a frame whose tail a write had
\* overridden in part, and whose Celsius bit a write had cleared.
C5_Witness ==
  /\ lastOp.op = "reboot"
  /\ bsiState260[4] = 165 /\ bsiState260[5] = kBsi260DefaultPeugeot307[5]
  /\ ~TestBit(bsiState260[1], 6)

----------------------------------------------------------------------------
(* Properties of the transport *)

\* C10: a reconfigure to the profile the transport is running in neither
\* stops, uninstalls nor starts the driver, sends no frame, and leaves the
\* sensor caches, the last-receive timestamp and both broadcast timers as
\* they were; so does every repetition.
C10_ReconfigureRunningIsNoop ==
  [][ (lastOp'.op = "cfg" /\ canStarted /\ currentBitrate = "k125k")
        => /\ drvOps' = <<>> /\ tx' = <<>>
           /\ UNCHANGED <<canStarted, currentBitrate, drv>>
           /\ UNCHANGED <<lastCanRx, engineTemp, intakeAirTemp, batteryVolt>>
           /\ UNCHANGED <<lastBsi260, lastBsi276>> ]_vars

\* C10 happens: a reconfigure has returned on a running transport whose
\* sensor caches and timers were in use.
C10_Witness ==
  /\ lastOp.op = "cfg" /\ canStarted /\ drvOps = <<>>
  /\ lastCanRx > 0 /\ engineTemp # -99 /\ batteryVolt # 0
  /\ lastBsi260 > SetupDelayMs

----------------------------------------------------------------------------
(* Properties of the clock and of the date/time frames 0x39B and 0x276 *)

\* the last operation was a date/time write the decoder accepts
IsTimeWrite(op) == op.op = "rx39B" /\ op.len >= 5

\* the fields of a date/time frame, as the bus carries them
Fields(data) ==
  [is24 |-> data[0] >= 128, year |-> 2000 + (data[0] % 128), month |-> data[1] % 16,
   day |-> data[2] % 32, hour |-> data[3] % 32, minute |-> data[4] % 64]

\* year >= 2000, 1 <= month <= 12, 1 <= day <= 31, hour <= 23, minute <= 59
FieldsInRange(c) ==
  /\ c.year >= 2000 /\ c.month >= 1 /\ c.month <= 12 /\ c.day >= 1 /\ c.day <= 31
  /\ c.hour <= 23 /\ c.minute <= 59

\* the day exists in the month of that year
DayInMonth(c) ==
  c.day <= (CASE c.month = 2 ->
                   IF (c.year % 4 = 0 /\ c.year % 100 # 0) \/ c.year % 400 = 0
                     THEN 29 ELSE 28
              [] c.month \in {4, 6, 9, 11} -> 30
              [] OTHER -> 31)

\* C6 as stated: after a date/time write whose fields are in range, day
\* values beyond the length of the month included, the 0x276 frame sent
\* right after it decodes to the same year, month, day, hour, minute and
\* 24h flag.
C6_RoundTrip ==
  (IsTimeWrite(lastOp) /\ FieldsInRange(Fields(lastOp.data)))
    => /\ Len(tx) = 1 /\ tx[1].id = CAN_ID_276
       /\ Fields(tx[1].data) = Fields(lastOp.data)

\* C6, amended: as C6, for the writes whose day exists in the month.
C6_RoundTripOfDates ==
  (IsTimeWrite(lastOp) /\ FieldsInRange(Fields(lastOp.data))
     /\ DayInMonth(Fields(lastOp.data)))
    => /\ Len(tx) = 1 /\ tx[1].id = CAN_ID_276
       /\ Fields(tx[1].data) = Fields(lastOp.data)

\* C6 happens: 29 February 2024 has been written and broadcast.
C6_Witness ==
  /\ IsTimeWrite(lastOp) /\ Len(tx) = 1
  /\ Fields(lastOp.data) =
       [is24 |-> TRUE, year |-> 2024, month |-> 2, day |-> 29, hour |-> 12, minute |-> 30]
  /\ Fields(tx[1].data) = Fields(lastOp.data)

\* a field of the write is out of range: month 13..15, hour 24..31 or
\* minute 60..63
FieldOutOfRange(c) == c.month > 12 \/ c.hour > 23 \/ c.minute > 59

\* the date and time of a 0x276 frame
DateTimeOf(data) ==
  <<data[0] % 128, data[1], data[2], data[3], data[4]>>

\* C7: a date/time write with a field out of range leaves the broadcast
\* time as it was: the 0x276 frame sent after it carries the year, month,
\* day, hour and minute the clock had without the write.
C7_OutOfRangeKeepsTime ==
  [][ (IsTimeWrite(lastOp') /\ FieldOutOfRange(Fields(lastOp'.data)))
        => /\ Len(tx') = 1 /\ tx'[1].id = CAN_ID_276
           /\ DateTimeOf(tx'[1].data) =
                DateTimeOf(bsiBuild276(bsiIs24h, Now(clkEpoch, clkMs, millis))) ]_vars

\* C7 happens: a write with month 13 has been answered with a 0x276 frame
\* while the clock was set.
C7_Witness ==
  /\ IsTimeWrite(lastOp) /\ Fields(lastOp.data).month = 13
  /\ Len(tx) = 1 /\ tx[1].id = CAN_ID_276

\* C8: when the conversion of a date/time write fails, the clock, the
\* persisted epoch and reference and the stored 24h flag keep their values,
\* no key is written to persistence and no 0x276 frame is sent.
C8_ConversionFailureChangesNothing ==
  [][ (IsTimeWrite(lastOp') /\ lastOp'.refused)
        => /\ UNCHANGED <<clkEpoch, clkMs, bsiPersistedEpoch, bsiPersistedEpochMillis>>
           /\ UNCHANGED <<bsiIs24h, prefs>>
           /\ nvsW' = {} /\ tx' = <<>> ]_vars

\* C8 happens: a conversion has failed; the 24h flag of the write has been
\* stored, keys have been written and a 0x276 frame has been sent.
C8_Witness ==
  /\ IsTimeWrite(lastOp) /\ lastOp.refused
  /\ Fields(lastOp.data).is24 = bsiIs24h /\ nvsW # {} /\ tx # <<>>

\* the persisted epoch E and reference R a boot finds
PersistedE == IF "epoch" \in prefs.has THEN prefs.epoch ELSE TimeZero
PersistedR == IF "epoch_ts" \in prefs.has THEN prefs.epoch_ts ELSE 0

\* E plus n seconds
PlusSeconds(e, n) == [d |-> e.d + ((e.s + n) \div 86400), s |-> (e.s + n) % 86400]

\* C9 as stated: for every persisted epoch E other than 0, every reference
\* R, 0 included, and every tick count T, the clock a boot sets is
\* E + floor((T - R) / 1000) when T >= R and E when T < R.
C9_BootClock ==
  [][ (lastOp'.op \in {"setup", "reboot"} /\ PersistedE # TimeZero)
        => /\ clkMs' = millis'
           /\ clkEpoch' = PlusSeconds(PersistedE,
                            IF millis' >= PersistedR
                              THEN (millis' - PersistedR) \div 1000 ELSE 0) ]_vars

\* C9, amended: for every persisted epoch E greater than 0 the clock a boot
\* sets is E + floor((T - R) / 1000) when R > 0 and T >= R, and E when R = 0
\* or T < R; for E below 0 the boot does not set the clock, which starts
\* at 0.
C9_BootClockWithReference ==
  [][ (lastOp'.op \in {"setup", "reboot"} /\ PersistedE # TimeZero)
        => IF PersistedE.d >= 0
             THEN /\ clkMs' = millis'
                  /\ clkEpoch' = PlusSeconds(PersistedE,
                                   IF PersistedR > 0 /\ millis' >= PersistedR
                                     THEN (millis' - PersistedR) \div 1000 ELSE 0)
             ELSE clkMs' = 0 /\ clkEpoch' = TimeZero ]_vars

\* C9 happens: a reboot has credited a second to an epoch persisted with
\* its reference.
C9_Witness ==
  /\ lastOp.op = "reboot" /\ PersistedR > 0 /\ millis >= PersistedR + 1000
  /\ PersistedE.d > 0 /\ clkEpoch = PlusSeconds(PersistedE, 1)

----------------------------------------------------------------------------
(* Properties of the scheduler and of start *)

\* the positions of the frames with identifier id among the frames t
FramesOf(t, id) == { k \in 1..Len(t) : t[k].id = id }

\* a start was attempted by the last operation
StartAttempted(ops) == ops # <<>> /\ ops[Len(ops)] \in {"install", "start"}

\* C11: in bsiTick a kind is handed to the transport exactly when it is due;
\* a failed transmission leaves the kind's timestamp as it was, so the kind
\* is still due, and the next tick, which sends what is due, tries again; a
\* successful transmission sets the timestamp to millis().
C11_FailedSendStaysDue ==
  [][ lastOp'.op = "tick"
        => /\ (FramesOf(tx', CAN_ID_260) # {})
                = (canStarted /\ Due(millis, lastBsi260, BSI_PERIOD_260_MS))
           /\ (FramesOf(tx', CAN_ID_276) # {})
                = (canStarted /\ Due(millis, lastBsi276, BSI_PERIOD_276_MS))
           /\ \A k \in FramesOf(tx', CAN_ID_260) :
                IF tx'[k].ok THEN lastBsi260' = millis'
                ELSE lastBsi260' = lastBsi260
                       /\ Due(millis', lastBsi260', BSI_PERIOD_260_MS)
           /\ \A k \in FramesOf(tx', CAN_ID_276) :
                IF tx'[k].ok THEN lastBsi276' = millis'
                ELSE lastBsi276' = lastBsi276
                       /\ Due(millis', lastBsi276', BSI_PERIOD_276_MS)
           /\ FramesOf(tx', CAN_ID_260) = {} => lastBsi260' = lastBsi260
           /\ FramesOf(tx', CAN_ID_276) = {} => lastBsi276' = lastBsi276 ]_vars

\* C11 happens: a tick has failed to send a settings frame that had been
\* due for two periods, and has sent the date/time frame.
C11_Witness ==
  /\ lastOp.op = "tick" /\ Len(tx) = 2
  /\ ~tx[1].ok /\ tx[2].ok
  /\ millis - lastBsi260 >= 2 * BSI_PERIOD_260_MS /\ lastBsi276 = millis

C14_StartFailureIsReported ==
  [][ /\ (StartAttempted(drvOps') /\ drv' # "running")
          => /\ ~canStarted' /\ tx' = <<>>
             /\ phase' = "loop" /\ loopPc' \in {"client", "rx"}
             /\ lastOp'.op = "cfg" => lastOp'.data = <<500>>
      /\ lastOp'.op \notin {"setup", "reboot", "cfg"}
          => drvOps' = <<>> /\ UNCHANGED <<canStarted, drv>> ]_vars

\* C14 happens: a whole loop iteration has run after a start that failed
\* at twai_start, and the transport is still stopped.
C14_Witness ==
  /\ lastOp.op = "tick" /\ ~canStarted /\ drv = "stopped" /\ tx = <<>>

\* C15: every twai_driver_install is made on a driver that is not
\* installed: the driver was uninstalled before the operation, or the
\* operation has stopped and uninstalled it first.
C15_InstallOnlyWhenUninstalled ==
  [][ \A k \in 1..Len(drvOps') :
        drvOps'[k] = "install"
          => \/ lastOp'.op \in {"setup", "reboot"}
             \/ drv = "uninstalled"
             \/ \E j \in 1..(k - 1) : drvOps'[j] = "uninstall" ]_vars

\* C15 happens: a reconfigure has called twai_driver_install on a driver
\* that an earlier failed twai_start had left installed.
C15_Witness ==
  /\ lastOp.op = "cfg" /\ drvOps = <<"install">> /\ drv = "stopped"

SentOk(t, id) == \E k \in FramesOf(t, id) : t[k].ok

\* C31: outside start, the timestamp of a kind after an operation is
\* millis() when a frame of that kind was transmitted by it and is what it
\* was otherwise, whatever happens to the other kind; and a tick hands a
\* kind to the transport exactly when the transport is started and the ticks
\* since that kind's own timestamp have reached that kind's own period.
C31_TimersIndependent ==
  [][ /\ lastOp'.op \notin {"setup", "reboot", "cfg"}
        => /\ lastBsi260' = IF SentOk(tx', CAN_ID_260) THEN millis' ELSE lastBsi260
           /\ lastBsi276' = IF SentOk(tx', CAN_ID_276) THEN millis' ELSE lastBsi276
      /\ lastOp'.op = "tick"
        => /\ (FramesOf(tx', CAN_ID_260) # {})
                = (canStarted /\ millis - lastBsi260 >= BSI_PERIOD_260_MS)
           /\ (FramesOf(tx', CAN_ID_276) # {})
                = (canStarted /\ millis - lastBsi276 >= BSI_PERIOD_276_MS) ]_vars

\* C31 happens: a tick found both kinds due, the settings frame was not
\* transmitted and the date/time frame was; only the date/time timestamp
\* has moved.
C31_Witness ==
  /\ lastOp.op = "tick" /\ Len(tx) = 2
  /\ ~tx[1].ok /\ tx[2].ok
  /\ lastBsi276 = millis /\ lastBsi260 < millis

----------------------------------------------------------------------------
(* Properties of the date/time frame 0x276 *)

\* the system clock has been set: by a date/time write, by a set-time
\* request or by a boot that found a persisted epoch
ClockWasSet == TimePositive(clkEpoch)

\* C21: every 0x276 frame handed to the transport while the clock is one
\* set through a date/time write or a set-time request has 7 bytes taken from
\* the clock at that moment: byte 0 bit 7 is the stored 24h flag, byte 0 bits
\* 6:0 are the clock's year minus 2000, bytes 1..4 its month, day, hour and
\* minute, byte 5 is 0x3F and byte 6 is 0xFE.
C21_FrameFromLiveClock ==
  ClockWasSet
    => \A k \in FramesOf(tx, CAN_ID_276) :
         LET t == LocalTime(Now(clkEpoch, clkMs, millis))
             d == tx[k].data
         IN  /\ tx[k].dlc = 7
             /\ (d[0] >= 128) = bsiIs24h
             /\ d[0] % 128 = t.year - 2000
             /\ d[1] = t.mon + 1 /\ d[2] = t.mday /\ d[3] = t.hour /\ d[4] = t.min
             /\ d[5] = 63 /\ d[6] = 254

\* C21 fails: after a set-time request for the year 2200 the frame has bit 7
\* of byte 0 set while the stored flag says 12h.
C21_Witness ==
  /\ lastOp.op = "time" /\ lastOp.data = <<200>> /\ Len(tx) = 1
  /\ LocalTime(clkEpoch).year = 2200
  /\ ~bsiIs24h /\ tx[1].data[0] = 200

\* C25: a date/time write whose conversion succeeds sets the clock to the
\* decoded time with seconds 0, stores that epoch and the tick count of the
\* moment in memory and in persistence, sets the stored 24h flag to byte 0
\* bit 7 of the input and hands one 0x276 frame to the transport in the same
\* pass of the receive loop.
C25_TimeWriteSetsAndStores ==
  [][ (IsTimeWrite(lastOp') /\ ~lastOp'.refused)
        => LET e == MkTime(Tm39B(Decode39B(lastOp'.data)))
           IN  /\ clkEpoch' = e /\ clkMs' = millis' /\ e.s % 60 = 0
               /\ bsiPersistedEpoch' = e /\ bsiPersistedEpochMillis' = millis'
               /\ TimeKeys \subseteq prefs'.has
               /\ prefs'.epoch = e /\ prefs'.epoch_ts = millis'
               /\ bsiIs24h' = (lastOp'.data[0] >= 128)
               /\ Len(tx') = 1 /\ tx'[1].id = CAN_ID_276
               /\ loopPc' = "rx" ]_vars

\* C25 fails: 1 January 2040 has been written; the epoch in memory is that
\* date and the persisted epoch is negative.
C25_Witness ==
  /\ IsTimeWrite(lastOp) /\ ~lastOp.refused
  /\ LocalTime(bsiPersistedEpoch).year = 2040 /\ clkEpoch = bsiPersistedEpoch
  /\ "epoch" \in prefs.has /\ ~TimePositive(prefs.epoch)

\* no time reference has ever been recorded: nothing is persisted, no
\* write or request has set the clock
NoReference ==
  /\ "epoch" \notin prefs.has /\ bsiPersistedEpoch = TimeZero
  /\ clkEpoch = TimeZero /\ clkMs = 0

\* C22: while no time reference has ever been recorded, every 0x276 frame
\* carries the year field 0, month 1, day 1, hour 0 and minute 0, however
\* long the device has been running.
C22_NoReferenceNoTime ==
  NoReference
    => \A k \in FramesOf(tx, CAN_ID_276) : DateTimeOf(tx[k].data) = <<0, 1, 1, 0, 0>>

\* C22 fails: a device without a time reference has run for a minute and a
\* tick has sent 00:01 of 1 January.
C22_Witness ==
  /\ NoReference /\ lastOp.op = "tick" /\ FramesOf(tx, CAN_ID_276) # {}
  /\ \A k \in FramesOf(tx, CAN_ID_276) : DateTimeOf(tx[k].data) = <<0, 1, 1, 0, 1>>

----------------------------------------------------------------------------
(* Properties of the standalone emulator *)

\* C12: in the periodic part of the standalone emulator's loop(), a
\* transmission that fails leaves last260 (for a settings frame) or last276
\* (for a date/time frame) as it was, so that the next iteration retries.
C12_FailedPeriodicSendKeepsStamp ==
  [][ emu'.op.op = "tick"
        => \A k \in 1..Len(emu'.tx) :
             ~emu'.tx[k].ok
               => IF emu'.tx[k].id = ID_260 THEN emu'.last260 = emu.last260
                  ELSE emu'.last276 = emu.last276 ]_vars

\* C12 happens: the periodic part has failed to send a settings frame and
\* has taken the timestamp all the same, so the frame is not due.
C12_Witness ==
  /\ emu.op.op = "tick" /\ Len(emu.tx) >= 1
  /\ emu.tx[1].id = ID_260 /\ ~emu.tx[1].ok
  /\ emu.last260 = emu.millis /\ ~Due(emu.millis, emu.last260, PERIOD_260_MS)

\* C20: whatever the outcome of transport install and start, the program is
\* never stopped outside its polling loop.
C20_NoConditionIsFatal == emu.pc \in {"reset", "rx", "tick"}

\* C20 happens: the transport has failed to start at boot and setup() has
\* been in its endless delay loop for three seconds.
C20_Witness ==
  /\ emu.pc = "hang" /\ emu.op.op = "delay" /\ emu.millis >= 3000

----------------------------------------------------------------------------
(* The worked examples *)

\* the settings write of the example: bytes 0x94, 0x44, of length 2..8
IsExample15B(op) ==
  op.op = "rx15B" /\ op.len >= 2 /\ op.len <= 8 /\ op.data[0] = 148 /\ op.data[1] = 68

\* what the example says of byte 0 of the frame sent after the write: bit 7
\* set, bits 6:2 = 00101, bits 1:0 those of the frame stored before
ExampleByte0 ==
  /\ Len(tx') = 1 /\ tx'[1].id = CAN_ID_260
  /\ tx'[1].data[0] >= 128
  /\ Bits6to2(tx'[1].data[0]) = 5
  /\ tx'[1].data[0] % 4 = bsiState260[0] % 4

\* C16 as stated: the settings write 0x94, 0x44 yields a 0x260 frame with
\* byte 0 = 1 00101 xx, xx as before, and byte 1 bit 6 cleared.
C16_ExampleClearsBit6 ==
  [][ IsExample15B(lastOp') => ExampleByte0 /\ ~TestBit(tx'[1].data[1], 6) ]_vars

\* C16, amended: the settings write 0x94, 0x44 yields a 0x260 frame with
\* byte 0 = 1 00101 xx, xx as before, and byte 1 bit 6 set (Celsius), as
\* bit 6 of 0x44 is; the stored language code is 5 and the Celsius flag true.
C16_ExampleSetsBit6 ==
  [][ IsExample15B(lastOp')
        => /\ ExampleByte0 /\ TestBit(tx'[1].data[1], 6)
           /\ bsiLang5' = 5 /\ bsiIsCelsius' ]_vars

\* C16 happens: the example write has been applied to a stored frame whose
\* byte 0 had the low bits 11, and the frame sent after it is 0x97 0x44 ...
C16_Witness ==
  /\ IsExample15B(lastOp) /\ Len(tx) = 1
  /\ tx[1].data[0] = 151 /\ tx[1].data[1] = 68

\* the date/time write of the example: 0x98 0x03 0x0F 0x0E 0x1E
IsExample39B(op) ==
  /\ op.op = "rx39B" /\ op.len = 5
  /\ \A i \in 0..4 : op.data[i] = <<152, 3, 15, 14, 30>>[i + 1]

\* C17: the date/time write 0x98 0x03 0x0F 0x0E 0x1E is decoded as 24h,
\* 2024-03-15 14:30: the 24h flag is set and the clock is at 14:30:00 of
\* that day; the one frame sent right after it is the 0x276 frame of the 7
\* bytes 0x98 0x03 0x0F 0x0E 0x1E 0x3F 0xFE.
C17_ExampleDateTime ==
  IsExample39B(lastOp)
    => /\ bsiIs24h
       /\ LocalTime(clkEpoch) =
            [year |-> 2024, mon |-> 2, mday |-> 15, hour |-> 14, min |-> 30, sec |-> 0]
       /\ Len(tx) = 1 /\ tx[1].id = CAN_ID_276 /\ tx[1].dlc = 7
       /\ tx[1].data = [i \in 0..6 |-> <<152, 3, 15, 14, 30, 63, 254>>[i + 1]]

\* C17 happens: the example has been written and the frame after it has
\* been transmitted.
C17_Witness ==
  /\ IsExample39B(lastOp) /\ Len(tx) = 1 /\ tx[1].ok
  /\ tx[1].data[5] = 63 /\ tx[1].data[6] = 254

----------------------------------------------------------------------------
(* Persistence of the settings *)

\* the four settings keys are present in P and hold the values given
PersistedIs(P, lang5, is24h, isCelsius, state260) ==
  /\ SaveKeys \subseteq P.has
  /\ P.lang5 = lang5 /\ P.is24h = is24h /\ P.isc = isCelsius /\ P.raw260 = state260

\* C19: when an operation that changes the settings state has returned (a
\* settings write of length 1..8, a preference change of the 24h or Celsius
\* flag, a date/time write of 5 bytes or more), the persisted language code,
\* 24h flag, Celsius flag and frame equal those in memory; a reboot from a
\* state in which they are equal reloads them unchanged and the settings
\* frame it sends is the stored one.
C19_PersistedEqualsMemory ==
  [][ /\ ( \/ IsWrite(lastOp')
           \/ IsTimeWrite(lastOp')
           \/ (lastOp'.op = "prefs"
                 /\ (bsiIs24h' # bsiIs24h \/ bsiIsCelsius' # bsiIsCelsius)) )
          => /\ SaveKeys \subseteq nvsW'
             /\ PersistedIs(prefs', bsiLang5', bsiIs24h', bsiIsCelsius', bsiState260')
      /\ (lastOp'.op = "reboot"
            /\ PersistedIs(prefs, bsiLang5, bsiIs24h, bsiIsCelsius, bsiState260))
          => /\ UNCHANGED <<bsiState260, bsiHave260, bsiLang5, bsiIs24h, bsiIsCelsius>>
             /\ \A k \in FramesOf(tx', CAN_ID_260) : tx'[k].data = bsiState260 ]_vars

\* C19 happens: after a write that changed language, units and tail and a
\* preference change of the 24h flag, the device has rebooted and sent the
\* stored frame.
C19_Witness ==
  /\ lastOp.op = "reboot" /\ FramesOf(tx, CAN_ID_260) # {}
  /\ PersistedIs(prefs, bsiLang5, bsiIs24h, bsiIsCelsius, bsiState260)
  /\ bsiState260 # kBsi260DefaultPeugeot307 /\ bsiState260[2] = 165

\* C26: every settings write of length 1 or more is followed, in the same
\* pass of the receive loop and whether or not the settings frame is due, by
\* the persistence write of the four settings keys and by one 0x260 frame
\* handed to the transport, which carries the state after the write.
C26_WriteIsSavedAndSent ==
  [][ (lastOp'.op = "rx15B" /\ lastOp'.len >= 1)
        => /\ SaveKeys \subseteq nvsW'
           /\ PersistedIs(prefs', bsiLang5', bsiIs24h', bsiIsCelsius', bsiState260')
           /\ Len(tx') = 1 /\ tx'[1].id = CAN_ID_260 /\ tx'[1].dlc = 8
           /\ tx'[1].data = bsiState260'
           /\ Bits6to2(tx'[1].data[0]) = bsiLang5' % 32
           /\ TestBit(tx'[1].data[1], 6) = bsiIsCelsius'
           /\ loopPc' = "rx" /\ millis' = millis ]_vars

\* C26 happens: a write has changed the language code while the settings
\* frame was not due, and the frame handed to the transport at once was not
\* transmitted.
C26_Witness ==
  /\ IsWrite(lastOp) /\ WriteHasLangFlag(lastOp) /\ bsiLang5 = 25
  /\ Len(tx) = 1 /\ ~tx[1].ok /\ Bits6to2(tx[1].data[0]) = 25
  /\ ~Due(millis, lastBsi260, BSI_PERIOD_260_MS)

\* C27: no settings write, whatever its flags and length, changes byte 0
\* bits 1:0 of the stored frame; a write with the tail flag changes nothing at
\* index len and beyond, a write without it changes nothing in bytes 2..7 and
\* in byte 1 only bit 6.
C27_WritesKeepLowBits ==
  [][ IsWrite(lastOp')
        => /\ bsiState260'[0] % 4 = bsiState260[0] % 4
           /\ \A i \in 1..7 :
                (IF WriteHasTailFlag(lastOp') THEN i >= lastOp'.len ELSE TRUE)
                  => IF i = 1 THEN WithoutBit6(bsiState260'[1]) = WithoutBit6(bsiState260[1])
                     ELSE bsiState260'[i] = bsiState260[i] ]_vars

\* C27 happens: a write with the tail flag, the lang/units flag and low
\* bits 00 in byte 0 has been applied to a stored frame with low bits 11.
C27_Witness ==
  /\ IsWrite(lastOp) /\ WriteHasTailFlag(lastOp) /\ WriteHasLangFlag(lastOp)
  /\ lastOp.data[0] % 4 = 0 /\ bsiState260[0] % 4 = 3 /\ bsiLang5 = 5

\* the frame f with byte 0 reduced to its bits 1:0 and byte 1 without its
\* bit 6: the 58 bits that the language code and the unit do not own
Passthrough(f) ==
  [i \in 0..7 |-> IF i = 0 THEN f[0] % 4 ELSE IF i = 1 THEN WithoutBit6(f[1]) ELSE f[i]]

\* C23: at startup the settings frame is the persisted one: when the
\* persisted frame is absent or all-zero the frame is the hardware baseline,
\* otherwise bytes 2..7 and byte 0 bits 1:0 (and byte 1 but for the unit bit)
\* are those stored.
C23_BootFrameFromPersistence ==
  [][ lastOp'.op \in {"setup", "reboot"}
        => /\ bsiHave260'
           /\ Passthrough(bsiState260') =
                Passthrough(IF "raw260" \notin prefs.has \/ AllZero(prefs.raw260)
                              THEN kBsi260DefaultPeugeot307 ELSE prefs.raw260) ]_vars

\* C23 happens: a reboot has loaded a frame that a write with a tail had
\* stored over low bits 11.
C23_Witness ==
  /\ lastOp.op = "reboot" /\ "raw260" \in prefs.has
  /\ bsiState260[0] % 4 = 3 /\ bsiState260[2] = 165 /\ bsiState260[7] = 165
  /\ Passthrough(bsiState260) = Passthrough(prefs.raw260)

\* C24: a settings or date/time write whose persistence write does not
\* take effect leaves the persisted values as they were and gives the memory
\* the new values: the language code, the Celsius flag and the tail of a
\* settings write, the 24h flag and the clock of a date/time write; the frame
\* sent at once and the frames of the later ticks carry the values in memory.
C24_FailedSaveKeepsSession ==
  [][ /\ (IsWrite(lastOp') /\ nvsW' = {})
          => LET buf == PadFrame(lastOp'.data, lastOp'.len)
             IN  /\ prefs' = prefs
                 /\ WriteHasLangFlag(lastOp')
                      => /\ bsiLang5' = Bits6to2(buf[0])
                         /\ bsiIsCelsius' = TestBit(buf[1], 6)
                 /\ WriteHasTailFlag(lastOp')
                      => \A i \in 2..(lastOp'.len - 1) : bsiState260'[i] = buf[i]
                 /\ Len(tx') = 1 /\ tx'[1].data = bsiState260'
                 /\ Bits6to2(tx'[1].data[0]) = bsiLang5' % 32
      /\ (IsTimeWrite(lastOp') /\ nvsW' = {})
          => /\ prefs' = prefs
             /\ bsiIs24h' = (lastOp'.data[0] >= 128)
             /\ clkEpoch' = MkTime(Tm39B(Decode39B(lastOp'.data))) /\ clkMs' = millis'
             /\ Len(tx') = 1 /\ tx'[1].id = CAN_ID_276
             /\ Fields(tx'[1].data) = Fields(lastOp'.data)
      /\ lastOp'.op = "tick"
          => /\ \A k \in FramesOf(tx', CAN_ID_260) : tx'[k].data = bsiState260'
             /\ \A k \in FramesOf(tx', CAN_ID_276) :
                  tx'[k].data = bsiBuild276(bsiIs24h', Now(clkEpoch', clkMs', millis')) ]_vars

\* C24 happens: no write has reached persistence, and a tick sends the
\* language, the tail and the date that the writes have put in memory.
C24_Witness ==
  /\ lastOp.op = "tick" /\ Len(tx) = 2
  /\ prefs.has = {}
  /\ bsiLang5 = 5 /\ tx[1].data[0] = 148 /\ tx[1].data[7] = 165
  /\ ~bsiIs24h /\ DateTimeOf(tx[2].data) = <<24, 3, 15, 14, 30>>

\* what C28 says of a frame g obtained from a frame f, a language byte and a
\* Celsius flag
AppliedTo(f, lang5, isCelsius, g) ==
  /\ Bits6to2(g[0]) = lang5 % 32
  /\ TestBit(g[0], 7)
  /\ TestBit(g[1], 6) = isCelsius
  /\ Passthrough(g) = Passthrough(f)

\* C28: applying language and units sets byte 0 bits 6:2 to the language code
\* modulo 32, byte 0 bit 7 to 1 and byte 1 bit 6 to the Celsius flag, leaves
\* byte 0 bits 1:0, the other bits of byte 1 and bytes 2..7 as they were, and
\* applying it to its own result changes nothing; so in both programs.
C28_ApplyLangUnits ==
  [][ /\ lastOp'.op = "apply"
        => /\ AppliedTo(bsiState260, bsiLang5, bsiIsCelsius, bsiState260')
           /\ bsiApplyLangUnits(BsiRec)' = BsiRec'
           /\ <<bsiLang5', bsiIsCelsius', bsiIs24h', bsiHave260'>>
                = <<bsiLang5, bsiIsCelsius, bsiIs24h, bsiHave260>>
      /\ emu'.op.op = "apply"
        => /\ AppliedTo(emu.state260, emu.lang5, emu.isCelsius, emu'.state260)
           /\ applyLangAndUnitsTo260(emu') = emu'
           /\ <<emu'.lang5, emu'.isCelsius>> = <<emu.lang5, emu.isCelsius>> ]_vars

\* C28 happens: the function has rewritten a frame with all bits set for the
\* language byte 37 and Fahrenheit, in both programs.
C28_Witness ==
  /\ lastOp.op = "apply" /\ emu.op.op = "apply"
  /\ bsiLang5 = 37 /\ ~bsiIsCelsius
  /\ bsiState260 = [i \in 0..7 |-> IF i = 0 THEN 151 ELSE IF i = 1 THEN 191
                                   ELSE <<17, 34, 51, 68, 85, 255>>[i - 1]]
  /\ emu.state260 = bsiState260

----------------------------------------------------------------------------
(* Properties of the receive loop *)

\* C30: frames are taken from the receive queue oldest first, each handled
\* before the next is taken; the loop position passes from receiving to the
\* tick only when the queue is empty, and the tick runs only from there; a
\* settings write stores and sends its own language, units and frame and a
\* date/time write its own 24h flag, so of two writes of one iteration the
\* later one is the one that memory, persistence and the bus show last; an
\* arrival only lengthens the queue at its end.
C30_DrainInOrderBeforeTick ==
  [][ /\ lastOp'.op = "arrive"
        => /\ Len(rxq') = Len(rxq) + 1 /\ SubSeq(rxq', 1, Len(rxq)) = rxq
           /\ rxq'[Len(rxq')].data = lastOp'.data
           /\ UNCHANGED <<loopPc, bsiVars, timeVars, prefs, schedVars>>
      /\ lastOp'.op \in {"rx15B", "rx39B"}
        => /\ loopPc = "rx" /\ loopPc' = "rx"
           /\ rxq # <<>> /\ rxq' = Tail(rxq)
           /\ lastOp'.data = Head(rxq).data /\ lastOp'.len = Head(rxq).len
           /\ (lastOp'.op = "rx15B") = (Head(rxq).id = CAN_ID_15B)
      /\ (IsWrite(lastOp') /\ WriteHasLangFlag(lastOp'))
        => /\ bsiLang5' = Bits6to2(Head(rxq).data[0])
           /\ bsiIsCelsius' = (Head(rxq).len >= 2 /\ TestBit(Head(rxq).data[1], 6))
           /\ PersistedIs(prefs', bsiLang5', bsiIs24h', bsiIsCelsius', bsiState260')
           /\ Len(tx') = 1 /\ tx'[1].id = CAN_ID_260 /\ tx'[1].data = bsiState260'
      /\ IsTimeWrite(lastOp')
        => /\ bsiIs24h' = (Head(rxq).data[0] >= 128)
           /\ PersistedIs(prefs', bsiLang5', bsiIs24h', bsiIsCelsius', bsiState260')
           /\ PersistedE' = MkTime(Tm39B(Decode39B(Head(rxq).data)))
           /\ Len(tx') = 1 /\ tx'[1].id = CAN_ID_276
           /\ Fields(tx'[1].data) = Fields(Head(rxq).data)
      /\ (loopPc' = "tick" /\ loopPc # "tick")
        => rxq = <<>> /\ rxq' = <<>> /\ lastOp'.op = "rxDone"
      /\ lastOp'.op = "tick"
        => /\ loopPc = "tick" /\ loopPc' = "client" /\ UNCHANGED rxq
           /\ \A k \in FramesOf(tx', CAN_ID_260) : tx'[k].data = bsiState260 ]_vars

\* C30 happens: two settings writes waited in the queue in one iteration;
\* the older one, language 5 and Celsius, has been handled and is in
\* memory and in persistence, the younger one, language 25, is next.
C30_Witness ==
  /\ loopPc = "rx" /\ lastOp.op = "rx15B" /\ lastOp.data[0] = 148
  /\ bsiLang5 = 5 /\ prefs.lang5 = 5 /\ "lang5" \in prefs.has
  /\ Len(rxq) = 1 /\ rxq[1].id = CAN_ID_15B /\ rxq[1].data[0] = 229

----------------------------------------------------------------------------
(* Properties of date/time writes with a month or a day of 0 *)

\* the fields of a write with a month of 0 read as 1 and a day of 0 read as 1
ZeroAsOne(c) ==
  [c EXCEPT !.month = IF @ = 0 THEN 1 ELSE @, !.day = IF @ = 0 THEN 1 ELSE @]

\* C32: after a date/time write with a month of 0 or a day of 0, and no field
\* beyond its range, the clock is the given year, hour and minute, seconds
\* 0, with the month 0 read as January and the day 0 as the first of the
\* month, the frame sent right after it decodes to those fields and the
\* persisted epoch is that of the clock; the frames of later ticks are built
\* from that clock.
C32_ZeroMonthDayReadAsOne ==
  [][ /\ (IsTimeWrite(lastOp') /\ (Fields(lastOp'.data).month = 0 \/ Fields(lastOp'.data).day = 0)
            /\ FieldsInRange(ZeroAsOne(Fields(lastOp'.data))))
        => LET c == ZeroAsOne(Fields(lastOp'.data))
               t == LocalTime(clkEpoch')
           IN  /\ <<t.year, t.mon + 1, t.mday, t.hour, t.min, t.sec>>
                    = <<c.year, c.month, c.day, c.hour, c.minute, 0>>
               /\ clkMs' = millis'
               /\ Len(tx') = 1 /\ tx'[1].id = CAN_ID_276
               /\ Fields(tx'[1].data) = c
               /\ PersistedE' = clkEpoch'
      /\ lastOp'.op = "tick"
        => \A k \in FramesOf(tx', CAN_ID_276) :
             tx'[k].data = bsiBuild276(bsiIs24h', Now(clkEpoch', clkMs', millis')) ]_vars

\* C32 happens: a write with month 0 and day 0 in 2024 has set the clock to
\* 1 January 2024 23:30 and a later tick has broadcast that date.
C32_Witness ==
  /\ lastOp.op = "tick" /\ Len(tx) = 2
  /\ clkEpoch = MkTime([year |-> 2024, mon |-> 0, mday |-> 1, hour |-> 23, min |-> 30,
                        sec |-> 0])
  /\ DateTimeOf(tx[2].data) = <<24, 1, 1, 23, 30>>

----------------------------------------------------------------------------
(* The stored frame and the decoded fields *)

\* C33: once setup has run, at every position of loop(), the stored settings
\* frame is present and agrees with the decoded fields: byte 0 bits 6:2 are
\* the language code modulo 32, byte 0 bit 7 is set and byte 1 bit 6 is the
\* Celsius flag.
C33_FrameAgreesWithFields ==
  phase = "loop"
    => /\ bsiHave260
       /\ Bits6to2(bsiState260[0]) = bsiLang5 % 32
       /\ TestBit(bsiState260[0], 7)
       /\ TestBit(bsiState260[1], 6) = bsiIsCelsius

\* C33 happens: an iteration has ended with the transport stopped, so that
\* nothing was sent, after a preference change to Celsius on a device that
\* had booted with Fahrenheit and the language byte 37 in persistence.
C33_Witness ==
  /\ phase = "loop" /\ loopPc = "client" /\ lastOp.op = "tick"
  /\ ~canStarted /\ bsiLang5 = 37 /\ bsiIsCelsius
  /\ TestBit(bsiState260[1], 6) /\ Bits6to2(bsiState260[0]) = 5

----------------------------------------------------------------------------
(* Properties of the stopped transport *)

\* C34: an operation that ends with the transport not started has handed no
\* frame to it, whether a tick with both kinds due, a preference change, a
\* set-time request or a button press; and unless the operation is a start
\* or a reconfigure, it leaves both broadcast timestamps as they were.
\* Button frames are handed over only while the transport is started.
C34_StoppedSendsNothing ==
  [][ /\ ~canStarted' => tx' = <<>>
      /\ (~canStarted' /\ lastOp'.op \notin {"setup", "reboot", "cfg"})
           => UNCHANGED <<lastBsi260, lastBsi276>>
      /\ (lastOp'.op = "btn" /\ lastOp'.data = <<200>> /\ canStarted)
           => /\ Len(tx') = 2 /\ tx'[1].id = CAN_ID_122 /\ tx'[2].id = CAN_ID_122
              /\ tx'[1].data = PressFrame(lastOp'.len) /\ tx'[2].data = ZeroFrame
              /\ UNCHANGED <<lastBsi260, lastBsi276>> ]_vars

\* C34 happens: with the transport stopped after a start that failed, a
\* button was pressed, the units were changed and a tick found both kinds
\* due; nothing was sent and the timestamps are those of the boot.
C34_Witness ==
  /\ lastOp.op = "tick" /\ ~canStarted /\ tx = <<>>
  /\ millis - lastBsi276 >= BSI_PERIOD_276_MS /\ millis - lastBsi260 >= BSI_PERIOD_260_MS
  /\ ~bsiIsCelsius /\ ~bsiIs24h /\ millis % 1000 = 395

----------------------------------------------------------------------------
(* The button-panel sketch of fmux-emu.ino *)

LONG_PRESS_MS == 800
DEBOUNCE_MS == 80
ADC_TOL == 100
PanelSetupDelayMs == 500
BTN_COUNT == 7

\* Settings, Maps, Radio, Phone, Peugeot Connects, Trip Info, Air Conditioning
buttons ==
  << [adcValue |-> 2780, canCmdShort |-> 23, canCmdLong |-> 39],
     [adcValue |-> 3210, canCmdShort |-> 24, canCmdLong |-> 40],
     [adcValue |-> 0,    canCmdShort |-> 25, canCmdLong |-> 41],
     [adcValue |-> 1488, canCmdShort |-> 32, canCmdLong |-> 48],
     [adcValue |-> 2000, canCmdShort |-> 41, canCmdLong |-> 57],
     [adcValue |-> 2259, canCmdShort |-> 48, canCmdLong |-> 64],
     [adcValue |-> 3500, canCmdShort |-> 50, canCmdLong |-> 66] >>

\* buttons[i] of the source, i from 0
ButtonAt(i) == buttons[i + 1]

Abs(x) == IF x < 0 THEN -x ELSE x

detectButton(adc) ==
  LET hits == { i \in 0..(BTN_COUNT - 1) : Abs(adc - ButtonAt(i).adcValue) < ADC_TOL }
  IN  IF hits = {} THEN -1 ELSE CHOOSE i \in hits : \A j \in hits : i <= j

\* sendCanCmd: one frame 0x122 with the command in byte 0
sendCanCmd(cmd, ok) ==
  <<TxFrame(CAN_ID_122, [i \in 0..7 |-> IF i = 0 THEN cmd ELSE 0], 8, ok)>>

\* time spent in twai_transmit: none, or the 100 ms of its timeout
TransmitMs(out) == IF out = "timeout" THEN 100 ELSE 0

\* readings of the ADC: Settings exactly and 79 below, 100 below (no button),
\* Maps exactly
AdcReadings == {2780, 2701, 2680, 3210}

\* setup(): delay(500), canInit
PanelSetup(canOk) ==
  /\ panel.pc = "reset"
  /\ panel' = [panel EXCEPT !.pc = "loop", !.can = canOk, !.millis = PanelSetupDelayMs,
                            !.op = [op |-> "setup", adc |-> 0]]
  /\ UNCHANGED <<remoteVars, emu, sched32>>

\* one iteration of loop(), delay(DEBOUNCE_MS) included; out is what
\* twai_transmit does if it is called
Scan(adc, out) ==
  /\ panel.pc = "loop" /\ panel.scans < PanelMaxScans
  /\ out \in (IF panel.can THEN {"ok", "timeout"} ELSE {"refused"})
  /\ LET P       == panel
         btn     == detectButton(adc)
         isNew   == btn # -1 /\ P.lastBtn # btn
         isLong  == btn # -1 /\ P.lastBtn = btn /\ ~P.longSent
                      /\ P.millis - P.pressStart > LONG_PRESS_MS
         isShort == btn = -1 /\ P.lastBtn # -1 /\ ~P.longSent
         sent    == IF isLong THEN sendCanCmd(ButtonAt(btn).canCmdLong, out = "ok")
                    ELSE IF isShort
                      THEN sendCanCmd(ButtonAt(P.lastBtn).canCmdShort, out = "ok")
                    ELSE <<>>
         cmdsOf  == [i \in 1..Len(sent) |-> sent[i].data[0]]
         ends    == P.seen.btn # -1 /\ btn # P.seen.btn
     IN  panel' =
           [P EXCEPT !.pressStart = IF isNew THEN P.millis ELSE @,
                     !.longSent = IF isNew THEN FALSE ELSE IF isLong THEN TRUE ELSE @,
                     !.lastBtn = btn,
                     !.millis = @ + (IF sent # <<>> THEN TransmitMs(out) ELSE 0)
                                  + DEBOUNCE_MS,
                     !.scans = @ + 1,
                     !.tx = sent,
                     !.ended = IF ends THEN [P.seen EXCEPT !.cmds = @ \o cmdsOf]
                               ELSE NoPress,
                     !.seen = IF btn = -1 THEN NoPress
                              ELSE IF ends \/ P.seen.btn = -1
                                THEN [btn |-> btn, from |-> P.millis, to |-> P.millis,
                                      cmds |-> <<>>]
                              ELSE [@ EXCEPT !.to = P.millis, !.cmds = @ \o cmdsOf],
                     !.op = [op |-> "scan", adc |-> adc]]
  /\ UNCHANGED <<remoteVars, emu, sched32>>

InitPanel ==
  /\ RemoteInit({PrefsFresh}) /\ emu = EmuPowerOn(EmptyPrefs)
  /\ sched32 = Sched32PowerOn /\ panel = PanelPowerOn

NextPanel ==
  \/ \E canOk \in BOOLEAN : PanelSetup(canOk)
  \/ \E adc \in AdcReadings, out \in {"ok", "timeout", "refused"} : Scan(adc, out)

SpecPanel == InitPanel /\ [][NextPanel]_vars

----------------------------------------------------------------------------
(* Properties of the button-panel sketch *)

\* the one command that C38 gives a press: the long-press command if the
\* button was read for more than LONG_PRESS_MS, else the short-press command
CommandOf(press) ==
  IF press.to - press.from > LONG_PRESS_MS THEN ButtonAt(press.btn).canCmdLong
  ELSE ButtonAt(press.btn).canCmdShort

\* C38: when a press ends (the reading leaves the button, for no button or
\* for another button), exactly one command has been handed over for it: the
\* long-press command if the button was held beyond the threshold, else the
\* short-press command.
C38_OneCommandPerPress ==
  panel.ended.btn # -1 => panel.ended.cmds = <<CommandOf(panel.ended)>>

\* the same for presses that end with a reading of no button
PanelReleasedToNone ==
  (panel.ended.btn # -1 /\ panel.lastBtn = -1)
    => panel.ended.cmds = <<CommandOf(panel.ended)>>

\* a long press has ended with a reading of no button
PanelLongPressed ==
  /\ panel.ended.btn # -1 /\ panel.lastBtn = -1
  /\ panel.ended.to - panel.ended.from > LONG_PRESS_MS

\* C38's case happens: a press has ended with the reading of another button
C38_Witness ==
  panel.ended.btn # -1 /\ panel.lastBtn # -1

----------------------------------------------------------------------------
(* The due test in unsigned 32-bit arithmetic *)

\* a + n modulo 2^32, for n below 2^16
Add32(a, n) ==
  LET l == a.lo + n
  IN  U32((a.hi + l \div Limb) % Limb, l % Limb)

\* a - b modulo 2^32
Sub32(a, b) ==
  LET borrow == IF a.lo < b.lo THEN 1 ELSE 0
  IN  U32((a.hi - b.hi - borrow + Limb) % Limb, (a.lo - b.lo + Limb) % Limb)

\* a >= n, for n below 2^16
Ge32(a, n) == a.hi > 0 \/ a.lo >= n

\* faulty variant of Due32: compares the counter with the deadline last + period
Due32ByDeadline(now, last, period) ==
  LET d == Add32(last, period)
  IN  now.hi > d.hi \/ (now.hi = d.hi /\ now.lo >= d.lo)

\* now - last >= period on unsigned long / uint32_t values
Due32(now, last, period) == Ge32(Sub32(now, last), period)

\* the time the model lets pass after the start
MaxElapsed32 == (MaxTicks + 1) * BSI_PERIOD_276_MS

\* values of millis() at which both timestamps have just been assigned: 200,
\* and 50, 500 and 1000 ms before the counter wraps
Starts32 == { U32(0, 200), U32(Limb - 1, Limb - 50), U32(Limb - 1, Limb - 500),
              U32(Limb - 1, Limb - 1000) }

Sent32(id, ok) == [id |-> id, ok |-> ok]
Op32(op, S) == [op |-> op, el260 |-> S.el260, el276 |-> S.el276]

\* bsiTick with the transport started
Tick32(ok260, ok276) ==
  /\ sched32.prog = "remote"
  /\ LET S     == sched32
         due60 == Due32(S.now, S.last260, BSI_PERIOD_260_MS)
         due76 == Due32(S.now, S.last276, BSI_PERIOD_276_MS)
     IN  sched32' =
           [S EXCEPT !.last260 = IF due60 /\ ok260 THEN S.now ELSE @,
                     !.el260   = IF due60 /\ ok260 THEN 0 ELSE @,
                     !.last276 = IF due76 /\ ok276 THEN S.now ELSE @,
                     !.el276   = IF due76 /\ ok276 THEN 0 ELSE @,
                     !.tx = (IF due60 THEN <<Sent32(CAN_ID_260, ok260)>> ELSE <<>>)
                              \o (IF due76 THEN <<Sent32(CAN_ID_276, ok276)>> ELSE <<>>),
                     !.op = Op32("tick", S)]
  /\ UNCHANGED <<remoteVars, emu, panel>>

\* the periodic part of the emulator's loop()
EmuTick32(ok260, ok276) ==
  /\ sched32.prog = "emulator"
  /\ LET S     == sched32
         due60 == Due32(S.now, S.last260, PERIOD_260_MS)
         due76 == Due32(S.now, S.last276, PERIOD_276_MS)
     IN  sched32' =
           [S EXCEPT !.last260 = IF due60 THEN S.now ELSE @,
                     !.el260   = IF due60 THEN 0 ELSE @,
                     !.last276 = IF due76 THEN S.now ELSE @,
                     !.el276   = IF due76 THEN 0 ELSE @,
                     !.tx = (IF due60 THEN <<Sent32(ID_260, ok260)>> ELSE <<>>)
                              \o (IF due76 THEN <<Sent32(ID_276, ok276)>> ELSE <<>>),
                     !.op = Op32("tick", S)]
  /\ UNCHANGED <<remoteVars, emu, panel>>

\* dt ms pass between two ticks; el260, el276 and run count them without
\* wrapping
Advance32(dt) ==
  /\ sched32.run + dt <= MaxElapsed32
  /\ sched32' = [sched32 EXCEPT !.now = Add32(@, dt), !.el260 = @ + dt, !.el276 = @ + dt,
                                !.run = @ + dt, !.tx = <<>>,
                                !.op = Op32("advance", sched32)]
  /\ UNCHANGED <<remoteVars, emu, panel>>

InitWrap ==
  /\ RemoteInit({PrefsFresh}) /\ emu = EmuPowerOn(EmptyPrefs) /\ panel = PanelPowerOn
  /\ sched32 \in { [Sched32PowerOn EXCEPT !.prog = p, !.now = t, !.last260 = t,
                                          !.last276 = t, !.op.op = "start"] :
                     p \in {"remote", "emulator"}, t \in Starts32 }

NextWrap ==
  \/ \E ok260 \in BOOLEAN, ok276 \in BOOLEAN : Tick32(ok260, ok276)
  \/ \E ok260 \in BOOLEAN, ok276 \in BOOLEAN : EmuTick32(ok260, ok276)
  \/ \E dt \in {50, 250} : Advance32(dt)

SpecWrap == InitWrap /\ [][NextWrap]_vars

----------------------------------------------------------------------------
(* Properties of the due test at the wrap of millis() *)

Sent32Ids(S) == { S.tx[i].id : i \in 1..Len(S.tx) }
Period260Of(S) == IF S.prog = "remote" THEN BSI_PERIOD_260_MS ELSE PERIOD_260_MS
Period276Of(S) == IF S.prog = "remote" THEN BSI_PERIOD_276_MS ELSE PERIOD_276_MS

\* C36: with millis() and the timestamps as unsigned 32-bit values, a tick
\* sends a kind exactly when at least one period has passed since the kind's
\* timestamp was assigned, also when the counter has wrapped around 2^32 in
\* between: never earlier, and at the first tick from one period on.
C36_DueAcrossWrap ==
  sched32.op.op = "tick"
    => /\ (CAN_ID_260 \in Sent32Ids(sched32)) <=> (sched32.op.el260 >= Period260Of(sched32))
       /\ (CAN_ID_276 \in Sent32Ids(sched32)) <=> (sched32.op.el276 >= Period276Of(sched32))

\* C36 happens: a tick just after the wrap sends the settings frame exactly
\* one period after a timestamp taken before the wrap, and not yet the
\* date/time frame, whose period has not passed.
C36_Witness ==
  /\ sched32.prog = "remote" /\ sched32.op.op = "tick"
  /\ sched32.now.hi = 0 /\ sched32.now.lo < BSI_PERIOD_260_MS
  /\ sched32.op.el260 = BSI_PERIOD_260_MS /\ sched32.last260 = sched32.now
  /\ sched32.last276.hi = Limb - 1
  /\ Sent32Ids(sched32) = {CAN_ID_260}

----------------------------------------------------------------------------
(* The scheduler over unbounded time *)

\* faulty variant of Send260On: a successful settings send restarts both
\* periods
Send260StampsBoth(S, ok) ==
  [S EXCEPT !.tx = Append(@, Sent32(CAN_ID_260, ok)),
            !.last260 = IF ok THEN S.now ELSE @,
            !.last276 = IF ok THEN S.now ELSE @]

\* bsiSend260 with the transport started: the frame is handed over and the
\* timestamp is assigned if that succeeded
Send260On(S, ok) ==
  [S EXCEPT !.tx = Append(@, Sent32(CAN_ID_260, ok)),
            !.last260 = IF ok THEN S.now ELSE @]

\* bsiSend276 with the transport started
Send276On(S, ok) ==
  [S EXCEPT !.tx = Append(@, Sent32(CAN_ID_276, ok)),
            !.last276 = IF ok THEN S.now ELSE @]

\* what twai_transmit may return: anything while the bus is flaky, success
\* once it has recovered
BusOutcomes == IF sched32.bus = "ok" THEN {TRUE} ELSE BOOLEAN

\* readCanMessages handles a settings write: bsiHandle15B ends with bsiSend260
LiveWrite15B(ok) ==
  /\ sched32.pc = "rx" /\ ok \in BusOutcomes
  /\ sched32' = [Send260On([sched32 EXCEPT !.tx = <<>>], ok)
                   EXCEPT !.wrote = TRUE, !.op = Op32("rx15B", sched32)]
  /\ UNCHANGED <<remoteVars, emu, panel>>

\* readCanMessages handles a date/time write: bsiHandle39B ends with bsiSend276
LiveWrite39B(ok) ==
  /\ sched32.pc = "rx" /\ ok \in BusOutcomes
  /\ sched32' = [Send276On([sched32 EXCEPT !.tx = <<>>], ok)
                   EXCEPT !.wrote = TRUE, !.op = Op32("rx39B", sched32)]
  /\ UNCHANGED <<remoteVars, emu, panel>>

\* twai_receive finds the queue empty: readCanMessages returns
LiveRxDone ==
  /\ sched32.pc = "rx"
  /\ sched32' = [sched32 EXCEPT !.pc = "tick", !.tx = <<>>, !.op = Op32("rxDone", sched32)]
  /\ UNCHANGED <<remoteVars, emu, panel>>

\* bsiTick, at the end of loop()
LiveTick(ok260, ok276) ==
  /\ sched32.pc = "tick" /\ ok260 \in BusOutcomes /\ ok276 \in BusOutcomes
  /\ LET S  == [sched32 EXCEPT !.tx = <<>>]
         s1 == IF Due32(S.now, S.last260, BSI_PERIOD_260_MS) THEN Send260On(S, ok260) ELSE S
         s2 == IF Due32(S.now, S.last276, BSI_PERIOD_276_MS) THEN Send276On(s1, ok276)
               ELSE s1
     IN  sched32' = [s2 EXCEPT !.pc = "client", !.op = Op32("tick", sched32)]
  /\ UNCHANGED <<remoteVars, emu, panel>>

\* the elapsed time from which the model stops counting: both periods are over
LiveCeilMs == BSI_PERIOD_276_MS

\* a timestamp after dt more ms, seen from a counter that is held in place:
\* the due test reads only now - last, so the timestamp moves back instead of
\* the counter moving on, and stops once now - last has reached LiveCeilMs
Rebase32(now, last, dt) ==
  IF Ge32(Sub32(now, last), LiveCeilMs) THEN last ELSE Sub32(last, U32(0, dt))

\* dt ms pass until the next iteration of loop()
LiveAdvance(dt) ==
  /\ sched32.pc = "client"
  /\ sched32' = [sched32 EXCEPT !.last260 = Rebase32(sched32.now, @, dt),
                                !.last276 = Rebase32(sched32.now, @, dt),
                                !.pc = "rx", !.wrote = FALSE, !.tx = <<>>,
                                !.op = Op32("advance", sched32)]
  /\ UNCHANGED <<remoteVars, emu, panel>>

\* from now on twai_transmit succeeds
BusRecovers ==
  /\ sched32.bus = "flaky"
  /\ sched32' = [sched32 EXCEPT !.bus = "ok", !.tx = <<>>, !.op = Op32("recover", sched32)]
  /\ UNCHANGED <<remoteVars, emu, panel>>

InitLive ==
  /\ RemoteInit({PrefsFresh}) /\ emu = EmuPowerOn(EmptyPrefs) /\ panel = PanelPowerOn
  /\ sched32 = [Sched32PowerOn EXCEPT !.now = U32(0, SetupDelayMs),
                                      !.last260 = U32(0, SetupDelayMs),
                                      !.last276 = U32(0, SetupDelayMs), !.op.op = "start"]

LoopStep ==
  \/ LiveRxDone
  \/ \E ok260 \in BOOLEAN, ok276 \in BOOLEAN : LiveTick(ok260, ok276)
  \/ \E dt \in {250, 500} : LiveAdvance(dt)

NextLive ==
  \/ \E ok \in BOOLEAN : LiveWrite15B(ok)
  \/ \E ok \in BOOLEAN : LiveWrite39B(ok)
  \/ LoopStep
  \/ BusRecovers

\* the loop keeps iterating (the drain ends, the tick runs, time passes), and
\* transmissions succeed from some moment on; nothing is asked of the writes
FairLive == WF_vars(LoopStep) /\ WF_vars(BusRecovers)

SpecLive == InitLive /\ [][NextLive]_vars /\ FairLive

----------------------------------------------------------------------------
(* Liveness of the periodic broadcasts *)

BroadcastOk(id) ==
  \E i \in 1..Len(sched32.tx) : sched32.tx[i].id = id /\ sched32.tx[i].ok

\* C37: with the transport started, the loop iterating and transmissions
\* succeeding from some moment on, a settings frame and a date/time frame are
\* each handed over successfully again and again, however many settings and
\* date/time writes are handled in between.
C37_BroadcastForever ==
  [](<>BroadcastOk(CAN_ID_260) /\ <>BroadcastOk(CAN_ID_276))

\* C37 happens: in an iteration that has handled a write, with the settings
\* period restarted by it, the tick sends the date/time frame alone.
C37_Witness ==
  /\ sched32.op.op = "tick" /\ sched32.wrote /\ sched32.bus = "ok"
  /\ BroadcastOk(CAN_ID_276) /\ ~BroadcastOk(CAN_ID_260)
  /\ Len(sched32.tx) = 1

----------------------------------------------------------------------------
(* Properties of settings writes of one byte *)

\* what C35 says of a write of one byte b0 with the lang/units flag: the
\* language lang5 and the Celsius flag isC after it, and the frame g sent,
\* against the stored frame f before it
ShortWriteDone(b0, f, lang5, isC, g) ==
  /\ lang5 = Bits6to2(b0) /\ ~isC
  /\ Bits6to2(g[0]) = lang5 /\ g[0] % 4 = f[0] % 4
  /\ ~TestBit(g[1], 6) /\ WithoutBit6(g[1]) = WithoutBit6(f[1])
  /\ \A i \in 2..7 : g[i] = f[i]

\* C35: a settings write of length 1 with byte 0 bit 7 set stores the
\* language of byte 0 and a Celsius flag of false, whatever the buffer holds
\* beyond the first byte; the 0x260 frame sent right after it has byte 1 bit 6
\* clear and the other bits of bytes 1..7 as they were stored; so in both
\* programs.
C35_OneByteWrite ==
  [][ /\ (IsWrite(lastOp') /\ lastOp'.len = 1 /\ WriteHasLangFlag(lastOp'))
        => /\ Len(tx') = 1 /\ tx'[1].id = CAN_ID_260
           /\ ShortWriteDone(lastOp'.data[0], bsiState260, bsiLang5', bsiIsCelsius',
                             tx'[1].data)
           /\ bsiState260' = tx'[1].data
      /\ (IsWrite(emu'.op) /\ emu'.op.len = 1 /\ WriteHasLangFlag(emu'.op))
        => /\ Len(emu'.tx) = 1 /\ emu'.tx[1].id = ID_260
           /\ ShortWriteDone(emu'.op.data[0], emu.state260, emu'.lang5, emu'.isCelsius,
                             emu'.tx[1].data)
           /\ emu'.state260 = emu'.tx[1].data ]_vars

\* C35 happens: in both programs a write of one byte has followed a full
\* write with Celsius and a tail: the language is 25, byte 1 has lost bit 6
\* and kept bit 2, and the tail is still there.
C35_Witness ==
  /\ lastOp.op = "rx15B" /\ lastOp.len = 1 /\ emu.op.op = "rx15B" /\ emu.op.len = 1
  /\ bsiLang5 = 25 /\ ~bsiIsCelsius /\ bsiState260[1] = 4 /\ bsiState260[7] = 165
  /\ emu.lang5 = 25 /\ ~emu.isCelsius /\ emu.state260[1] = 4 /\ emu.state260[7] = 165

----------------------------------------------------------------------------
(* Properties of malformed input *)

\* C18: a date/time frame shorter than 5 bytes and a settings frame of
\* length 0 leave the settings frame, language code, Celsius flag, 24h flag,
\* clock and persisted values as they were, write no key and send no frame.
C18_MalformedIsIgnored ==
  [][ ((lastOp'.op = "rx39B" /\ lastOp'.len < 5) \/ (lastOp'.op = "rx15B" /\ lastOp'.len = 0))
        => /\ UNCHANGED <<bsiState260, bsiHave260, bsiLang5, bsiIsCelsius, bsiIs24h>>
           /\ UNCHANGED <<clkEpoch, clkMs, bsiPersistedEpoch, bsiPersistedEpochMillis>>
           /\ UNCHANGED prefs
           /\ nvsW' = {} /\ tx' = <<>> ]_vars

\* C18 happens: a date/time frame of 4 bytes has been received while the
\* clock was at another date, and its 24h flag differed from the stored one.
C18_Witness ==
  /\ lastOp.op = "rx39B" /\ lastOp.len = 4
  /\ (lastOp.data[0] >= 128) # bsiIs24h
  /\ clkEpoch.d > 0 /\ bsiBuild276(bsiIs24h, clkEpoch)[1] # lastOp.data[1]

====
